---- MODULE Spec2Model ----
(***************************************************************************)
(* Model of tools/lldbmacros/ptrauth: the PRINCE / Modified PRINCE block   *)
(* cipher (prince.py), the key derivation function (apple_kdf.py) and the  *)
(* FEAT_PAuth operations AddPAC, Auth and Strip (feat_pauth.py).           *)
(*                                                                         *)
(* A Python int is modelled as the set of the positions of its 1 bits      *)
(* (bit 0 is the least significant).  Python ints are unbounded, so a word *)
(* is a finite set of naturals and nothing truncates it to 64 bits unless  *)
(* the code does.  x | y is union, x & y intersection, x ^ y symmetric     *)
(* difference, x & ~y set difference.                                      *)
(***************************************************************************)
EXTENDS Integers, Sequences, FiniteSets, TLC

\* ---------------------------------------------------------------- words

Pow2(n) == 2 ^ n

\* the bits of a small non-negative int (a nybble, a table index)
NibBits(n) == {j \in 0..3 : (n \div Pow2(j)) % 2 = 1}

\* the value of a set of bits below bit 4
NibVal(b) == (IF 0 \in b THEN 1 ELSE 0) + (IF 1 \in b THEN 2 ELSE 0)
           + (IF 2 \in b THEN 4 ELSE 0) + (IF 3 \in b THEN 8 ELSE 0)

\* a hexadecimal literal, most significant digit first
Hex(h) == UNION {{4 * (Len(h) - i) + j : j \in NibBits(h[i])} : i \in 1..Len(h)}

\* the value of a statement sequence: The({F(st) : st \in {v}}) is F applied
\* to the value of v, v being computed first and once
The(singleton) == CHOOSE r \in singleton : TRUE

\* every operation computes its operands once and enumerates its result, so
\* that a word is always held as an explicit set of bit positions
Xor(x, y) == The({{b \in xv \cup yv : ~(b \in xv /\ b \in yv)} : xv \in {x}, yv \in {y}})
And(x, y) == The({{b \in xv : b \in yv} : xv \in {x}, yv \in {y}})
Or(x, y) == The({{b \in xv \cup yv : TRUE} : xv \in {x}, yv \in {y}})
AndNot(x, y) == The({{b \in xv : b \notin yv} : xv \in {x}, yv \in {y}})
ShiftL(x, n) == {b + n : b \in x}
ShiftR(x, n) == {b - n : b \in {c \in x : c >= n}}

\* ---------------------------------------------------------------- prince.py

M_PRIME ==
  <<
     Hex(<< 0, 8, 8, 8, 0, 0, 0, 0, 0, 0, 0, 0, 0, 0, 0, 0>>),  \* 0x0888000000000000
     Hex(<< 4, 0, 4, 4, 0, 0, 0, 0, 0, 0, 0, 0, 0, 0, 0, 0>>),  \* 0x4044000000000000
     Hex(<< 2, 2, 0, 2, 0, 0, 0, 0, 0, 0, 0, 0, 0, 0, 0, 0>>),  \* 0x2202000000000000
     Hex(<< 1, 1, 1, 0, 0, 0, 0, 0, 0, 0, 0, 0, 0, 0, 0, 0>>),  \* 0x1110000000000000
     Hex(<< 8, 8, 8, 0, 0, 0, 0, 0, 0, 0, 0, 0, 0, 0, 0, 0>>),  \* 0x8880000000000000
     Hex(<< 0, 4, 4, 4, 0, 0, 0, 0, 0, 0, 0, 0, 0, 0, 0, 0>>),  \* 0x0444000000000000
     Hex(<< 2, 0, 2, 2, 0, 0, 0, 0, 0, 0, 0, 0, 0, 0, 0, 0>>),  \* 0x2022000000000000
     Hex(<< 1, 1, 0, 1, 0, 0, 0, 0, 0, 0, 0, 0, 0, 0, 0, 0>>),  \* 0x1101000000000000
     Hex(<< 8, 8, 0, 8, 0, 0, 0, 0, 0, 0, 0, 0, 0, 0, 0, 0>>),  \* 0x8808000000000000
     Hex(<< 4, 4, 4, 0, 0, 0, 0, 0, 0, 0, 0, 0, 0, 0, 0, 0>>),  \* 0x4440000000000000
     Hex(<< 0, 2, 2, 2, 0, 0, 0, 0, 0, 0, 0, 0, 0, 0, 0, 0>>),  \* 0x0222000000000000
     Hex(<< 1, 0, 1, 1, 0, 0, 0, 0, 0, 0, 0, 0, 0, 0, 0, 0>>),  \* 0x1011000000000000
     Hex(<< 8, 0, 8, 8, 0, 0, 0, 0, 0, 0, 0, 0, 0, 0, 0, 0>>),  \* 0x8088000000000000
     Hex(<< 4, 4, 0, 4, 0, 0, 0, 0, 0, 0, 0, 0, 0, 0, 0, 0>>),  \* 0x4404000000000000
     Hex(<< 2, 2, 2, 0, 0, 0, 0, 0, 0, 0, 0, 0, 0, 0, 0, 0>>),  \* 0x2220000000000000
     Hex(<< 0, 1, 1, 1, 0, 0, 0, 0, 0, 0, 0, 0, 0, 0, 0, 0>>),  \* 0x0111000000000000
     Hex(<< 0, 0, 0, 0, 8, 8, 8, 0, 0, 0, 0, 0, 0, 0, 0, 0>>),  \* 0x0000888000000000
     Hex(<< 0, 0, 0, 0, 0, 4, 4, 4, 0, 0, 0, 0, 0, 0, 0, 0>>),  \* 0x0000044400000000
     Hex(<< 0, 0, 0, 0, 2, 0, 2, 2, 0, 0, 0, 0, 0, 0, 0, 0>>),  \* 0x0000202200000000
     Hex(<< 0, 0, 0, 0, 1, 1, 0, 1, 0, 0, 0, 0, 0, 0, 0, 0>>),  \* 0x0000110100000000
     Hex(<< 0, 0, 0, 0, 8, 8, 0, 8, 0, 0, 0, 0, 0, 0, 0, 0>>),  \* 0x0000880800000000
     Hex(<< 0, 0, 0, 0, 4, 4, 4, 0, 0, 0, 0, 0, 0, 0, 0, 0>>),  \* 0x0000444000000000
     Hex(<< 0, 0, 0, 0, 0, 2, 2, 2, 0, 0, 0, 0, 0, 0, 0, 0>>),  \* 0x0000022200000000
     Hex(<< 0, 0, 0, 0, 1, 0, 1, 1, 0, 0, 0, 0, 0, 0, 0, 0>>),  \* 0x0000101100000000
     Hex(<< 0, 0, 0, 0, 8, 0, 8, 8, 0, 0, 0, 0, 0, 0, 0, 0>>),  \* 0x0000808800000000
     Hex(<< 0, 0, 0, 0, 4, 4, 0, 4, 0, 0, 0, 0, 0, 0, 0, 0>>),  \* 0x0000440400000000
     Hex(<< 0, 0, 0, 0, 2, 2, 2, 0, 0, 0, 0, 0, 0, 0, 0, 0>>),  \* 0x0000222000000000
     Hex(<< 0, 0, 0, 0, 0, 1, 1, 1, 0, 0, 0, 0, 0, 0, 0, 0>>),  \* 0x0000011100000000
     Hex(<< 0, 0, 0, 0, 0, 8, 8, 8, 0, 0, 0, 0, 0, 0, 0, 0>>),  \* 0x0000088800000000
     Hex(<< 0, 0, 0, 0, 4, 0, 4, 4, 0, 0, 0, 0, 0, 0, 0, 0>>),  \* 0x0000404400000000
     Hex(<< 0, 0, 0, 0, 2, 2, 0, 2, 0, 0, 0, 0, 0, 0, 0, 0>>),  \* 0x0000220200000000
     Hex(<< 0, 0, 0, 0, 1, 1, 1, 0, 0, 0, 0, 0, 0, 0, 0, 0>>),  \* 0x0000111000000000
     Hex(<< 0, 0, 0, 0, 0, 0, 0, 0, 8, 8, 8, 0, 0, 0, 0, 0>>),  \* 0x0000000088800000
     Hex(<< 0, 0, 0, 0, 0, 0, 0, 0, 0, 4, 4, 4, 0, 0, 0, 0>>),  \* 0x0000000004440000
     Hex(<< 0, 0, 0, 0, 0, 0, 0, 0, 2, 0, 2, 2, 0, 0, 0, 0>>),  \* 0x0000000020220000
     Hex(<< 0, 0, 0, 0, 0, 0, 0, 0, 1, 1, 0, 1, 0, 0, 0, 0>>),  \* 0x0000000011010000
     Hex(<< 0, 0, 0, 0, 0, 0, 0, 0, 8, 8, 0, 8, 0, 0, 0, 0>>),  \* 0x0000000088080000
     Hex(<< 0, 0, 0, 0, 0, 0, 0, 0, 4, 4, 4, 0, 0, 0, 0, 0>>),  \* 0x0000000044400000
     Hex(<< 0, 0, 0, 0, 0, 0, 0, 0, 0, 2, 2, 2, 0, 0, 0, 0>>),  \* 0x0000000002220000
     Hex(<< 0, 0, 0, 0, 0, 0, 0, 0, 1, 0, 1, 1, 0, 0, 0, 0>>),  \* 0x0000000010110000
     Hex(<< 0, 0, 0, 0, 0, 0, 0, 0, 8, 0, 8, 8, 0, 0, 0, 0>>),  \* 0x0000000080880000
     Hex(<< 0, 0, 0, 0, 0, 0, 0, 0, 4, 4, 0, 4, 0, 0, 0, 0>>),  \* 0x0000000044040000
     Hex(<< 0, 0, 0, 0, 0, 0, 0, 0, 2, 2, 2, 0, 0, 0, 0, 0>>),  \* 0x0000000022200000
     Hex(<< 0, 0, 0, 0, 0, 0, 0, 0, 0, 1, 1, 1, 0, 0, 0, 0>>),  \* 0x0000000001110000
     Hex(<< 0, 0, 0, 0, 0, 0, 0, 0, 0, 8, 8, 8, 0, 0, 0, 0>>),  \* 0x0000000008880000
     Hex(<< 0, 0, 0, 0, 0, 0, 0, 0, 4, 0, 4, 4, 0, 0, 0, 0>>),  \* 0x0000000040440000
     Hex(<< 0, 0, 0, 0, 0, 0, 0, 0, 2, 2, 0, 2, 0, 0, 0, 0>>),  \* 0x0000000022020000
     Hex(<< 0, 0, 0, 0, 0, 0, 0, 0, 1, 1, 1, 0, 0, 0, 0, 0>>),  \* 0x0000000011100000
     Hex(<< 0, 0, 0, 0, 0, 0, 0, 0, 0, 0, 0, 0, 0, 8, 8, 8>>),  \* 0x0000000000000888
     Hex(<< 0, 0, 0, 0, 0, 0, 0, 0, 0, 0, 0, 0, 4, 0, 4, 4>>),  \* 0x0000000000004044
     Hex(<< 0, 0, 0, 0, 0, 0, 0, 0, 0, 0, 0, 0, 2, 2, 0, 2>>),  \* 0x0000000000002202
     Hex(<< 0, 0, 0, 0, 0, 0, 0, 0, 0, 0, 0, 0, 1, 1, 1, 0>>),  \* 0x0000000000001110
     Hex(<< 0, 0, 0, 0, 0, 0, 0, 0, 0, 0, 0, 0, 8, 8, 8, 0>>),  \* 0x0000000000008880
     Hex(<< 0, 0, 0, 0, 0, 0, 0, 0, 0, 0, 0, 0, 0, 4, 4, 4>>),  \* 0x0000000000000444
     Hex(<< 0, 0, 0, 0, 0, 0, 0, 0, 0, 0, 0, 0, 2, 0, 2, 2>>),  \* 0x0000000000002022
     Hex(<< 0, 0, 0, 0, 0, 0, 0, 0, 0, 0, 0, 0, 1, 1, 0, 1>>),  \* 0x0000000000001101
     Hex(<< 0, 0, 0, 0, 0, 0, 0, 0, 0, 0, 0, 0, 8, 8, 0, 8>>),  \* 0x0000000000008808
     Hex(<< 0, 0, 0, 0, 0, 0, 0, 0, 0, 0, 0, 0, 4, 4, 4, 0>>),  \* 0x0000000000004440
     Hex(<< 0, 0, 0, 0, 0, 0, 0, 0, 0, 0, 0, 0, 0, 2, 2, 2>>),  \* 0x0000000000000222
     Hex(<< 0, 0, 0, 0, 0, 0, 0, 0, 0, 0, 0, 0, 1, 0, 1, 1>>),  \* 0x0000000000001011
     Hex(<< 0, 0, 0, 0, 0, 0, 0, 0, 0, 0, 0, 0, 8, 0, 8, 8>>),  \* 0x0000000000008088
     Hex(<< 0, 0, 0, 0, 0, 0, 0, 0, 0, 0, 0, 0, 4, 4, 0, 4>>),  \* 0x0000000000004404
     Hex(<< 0, 0, 0, 0, 0, 0, 0, 0, 0, 0, 0, 0, 2, 2, 2, 0>>),  \* 0x0000000000002220
     Hex(<< 0, 0, 0, 0, 0, 0, 0, 0, 0, 0, 0, 0, 0, 1, 1, 1>>)   \* 0x0000000000000111
  >>

RC ==
  <<
     Hex(<< 0, 0, 0, 0, 0, 0, 0, 0, 0, 0, 0, 0, 0, 0, 0, 0>>),  \* 0x0000000000000000
     Hex(<< 1, 3, 1, 9, 8,10, 2,14, 0, 3, 7, 0, 7, 3, 4, 4>>),  \* 0x13198a2e03707344
     Hex(<<10, 4, 0, 9, 3, 8, 2, 2, 2, 9, 9,15, 3, 1,13, 0>>),  \* 0xa4093822299f31d0
     Hex(<< 0, 8, 2,14,15,10, 9, 8,14,12, 4,14, 6,12, 8, 9>>),  \* 0x082efa98ec4e6c89
     Hex(<< 4, 5, 2, 8, 2, 1,14, 6, 3, 8,13, 0, 1, 3, 7, 7>>),  \* 0x452821e638d01377
     Hex(<<11,14, 5, 4, 6, 6,12,15, 3, 4,14, 9, 0,12, 6,12>>),  \* 0xbe5466cf34e90c6c
     Hex(<< 7,14,15, 8, 4,15, 7, 8,15,13, 9, 5, 5,12,11, 1>>),  \* 0x7ef84f78fd955cb1
     Hex(<< 8, 5, 8, 4, 0, 8, 5, 1,15, 1,10,12, 4, 3,10,10>>),  \* 0x85840851f1ac43aa
     Hex(<<12, 8, 8, 2,13, 3, 2,15, 2, 5, 3, 2, 3,12, 5, 4>>),  \* 0xc882d32f25323c54
     Hex(<< 6, 4,10, 5, 1, 1, 9, 5,14, 0,14, 3, 6, 1, 0,13>>),  \* 0x64a51195e0e3610d
     Hex(<<13, 3,11, 5,10, 3, 9, 9,12,10, 0,12, 2, 3, 9, 9>>),  \* 0xd3b5a399ca0c2399
     Hex(<<12, 0,10,12, 2, 9,11, 7,12, 9, 7,12, 5, 0,13,13>>)   \* 0xc0ac29b7c97c50dd
  >>

RC_Apple ==
  <<
     Hex(<< 0, 0, 0, 0, 0, 0, 0, 0, 0, 0, 0, 0, 0, 0, 0, 0>>),  \* 0x0000000000000000
     Hex(<< 1, 3, 1, 9, 8,10, 2,14, 0, 3, 7, 0, 7, 3, 4, 4>>),  \* 0x13198a2e03707344
     Hex(<<10, 4, 0, 9, 3, 8, 2, 2, 2, 9, 9,15, 3, 1,13, 0>>),  \* 0xa4093822299f31d0
     Hex(<< 0, 8, 2,14,15,10, 9, 8,14,12, 4,14, 6,12, 8, 9>>),  \* 0x082efa98ec4e6c89
     Hex(<< 4, 5, 2, 8, 2, 1,14, 6, 3, 8,13, 0, 1, 3, 7, 7>>),  \* 0x452821e638d01377
     Hex(<<11,14, 5, 4, 6, 6,12,15, 3, 4,14, 9, 0,12, 6,12>>),  \* 0xbe5466cf34e90c6c
     Hex(<<12, 0,10,12, 2, 9,11, 7,12, 9, 7,12, 5, 0,13,13>>),  \* 0xc0ac29b7c97c50dd
     Hex(<< 3,15, 8, 4,13, 5,11, 5,11, 5, 4, 7, 0, 9, 1, 7>>),  \* 0x3f84d5b5b5470917
     Hex(<< 9, 2, 1, 6,13, 5,13, 9, 8, 9, 7, 9,15,11, 1,11>>),  \* 0x9216d5d98979fb1b
     Hex(<<13, 1, 3, 1, 0,11,10, 6, 9, 8,13,15,11, 5,10,12>>),  \* 0xd1310ba698dfb5ac
     Hex(<< 2,15,15,13, 7, 2,13,11,13, 0, 1,10,13,15,11, 7>>),  \* 0x2ffd72dbd01adfb7
     Hex(<<11, 8,14, 1,10,15,14,13, 6,10, 2, 6, 7,14, 9, 7>>)   \* 0xb8e1afed6a267e97
  >>

S == << 11, 15, 3, 2,
        10, 12, 9, 1,
        6, 7, 8, 0,
        14, 5, 13, 4 >>

SR == << 0, 5, 10, 15,
         4, 9, 14, 3,
         8, 13, 2, 7,
         12, 1, 6, 11 >>

\* list.index(v): the first position (from 0) holding v
Index(list, v) == CHOOSE i \in 0..(Len(list) - 1) :
                     /\ list[i + 1] = v
                     /\ \A j \in 0..(i - 1) : list[j + 1] # v

\* range(0, 64, 4)
NybbleShifts == {4 * n : n \in 0..15}

\* (state >> i) & 0b1111: bits i .. i + 3 of state, as a number 0 .. 15
Nybble(state, i) == NibVal({j \in 0..3 : (i + j) \in state})

s(state) == UNION {ShiftL(NibBits(S[Nybble(state, i) + 1]), i) : i \in NybbleShifts}

s_inv(state) == UNION {ShiftL(NibBits(Index(S, Nybble(state, i))), i) : i \in NybbleShifts}

\* (val >> ((15 - i) * 4)) & 0b1111: bits (15 - i) * 4 .. (15 - i) * 4 + 3 of
\* val, moved down to bits 0 .. 3
extract_nybble(val, i) == {j \in 0..3 : ((15 - i) * 4 + j) \in val}

\* set_nybble placing nybble i one nybble higher
set_nybble_up(val, i) == ShiftL(val, (16 - i) * 4)

set_nybble(val, i) == ShiftL(val, (15 - i) * 4)

sr(state) == UNION {set_nybble(extract_nybble(state, SR[i + 1]), i) : i \in 0..15}

\* sr_inv with SR[i] for SR.index(i)
sr_inv_forward(state) == UNION {set_nybble(extract_nybble(state, SR[i + 1]), i) : i \in 0..15}

sr_inv(state) == UNION {set_nybble(extract_nybble(state, Index(SR, i)), i) : i \in 0..15}

\* the rows of M_PRIME (numbered from 0, as in the code) that have bit b set
M_PRIME_rows_with == [b \in UNION {M_PRIME[i + 1] : i \in 0..63} |->
                        {i \in 0..63 : b \in M_PRIME[i + 1]}]

\* m_prime with state_i = (state >> i) & 1: row i selected by bit i
m_prime_low_bit_first(state) ==
  {b \in DOMAIN M_PRIME_rows_with :
     Cardinality({i \in M_PRIME_rows_with[b] : i \in state}) % 2 = 1}

\* ret ^= state_i * M_PRIME[i] for i in range(0, 64): the xor of the rows
\* selected by the bits of state (row i by bit 63 - i); bit b of the xor of
\* several words is set when an odd number of them have bit b set
m_prime(state) ==
  {b \in DOMAIN M_PRIME_rows_with :
     Cardinality({i \in M_PRIME_rows_with[b] : (63 - i) \in state}) % 2 = 1}

\* state = m_prime(state); state = sr(state)
m(state) == The({sr(st) : st \in {m_prime(state)}})

\* state = sr_inv(state); state = m_prime(state)
m_inv(state) == The({m_prime(st) : st \in {sr_inv(state)}})

\* the table a call of prince passes as rc
Table(name) == IF name = "RC_Apple" THEN RC_Apple ELSE RC

\* forward_round without state ^= rc[i]
forward_round_no_rc(state, k1, rc, i) ==
  The({Xor(st2, k1) : st2 \in {m(st1) : st1 \in {s(state)}}})

\* the body of for i in range(1, 6): s, m, ^= rc[i], ^= k1
forward_round(state, k1, rc, i) ==
  The({Xor(st3, k1) :
         st3 \in {Xor(st2, rc[i + 1]) :
           st2 \in {m(st1) : st1 \in {s(state)}}}})

RECURSIVE forward_rounds(_, _, _, _)
forward_rounds(state, k1, rc, i) ==
  IF i = 6 THEN state
  ELSE The({forward_rounds(st, k1, rc, i + 1) :
              st \in {forward_round(state, k1, rc, i)}})

\* backward_round without state ^= k1
backward_round_no_k1(state, k1, rc, i) ==
  The({s_inv(st3) :
         st3 \in {m_inv(st2) :
           st2 \in {Xor(state, rc[i + 1])}}})

\* the body of for i in range(6, 11): ^= k1, ^= rc[i], m_inv, s_inv
backward_round(state, k1, rc, i) ==
  The({s_inv(st3) :
         st3 \in {m_inv(st2) :
           st2 \in {Xor(st1, rc[i + 1]) : st1 \in {Xor(state, k1)}}}})

RECURSIVE backward_rounds(_, _, _, _)
backward_rounds(state, k1, rc, i) ==
  IF i = 11 THEN state
  ELSE The({backward_rounds(st, k1, rc, i + 1) :
              st \in {backward_round(state, k1, rc, i)}})

\* middle with s for s_inv
middle_s_twice(state) ==
  The({s(st2) : st2 \in {m_prime(st1) : st1 \in {s(state)}}})

\* state = s(state); state = m_prime(state); state = s_inv(state)
middle(state) ==
  The({s_inv(st2) : st2 \in {m_prime(st1) : st1 \in {s(state)}}})

\* the statements of prince_core, the first one innermost
prince_core(state, k1, rc) ==
  The({Xor(Xor(st3, rc[12]), k1) :
         st3 \in {backward_rounds(st2, k1, rc, 6) :
           st2 \in {middle(st1) :
             st1 \in {forward_rounds(st0, k1, rc, 1) :
               st0 \in {Xor(Xor(state, k1), rc[1])}}}}})

\* k0_ror_1 = (k0 >> 1) | ((k0 & 1) << 63); k0_inv = k0_ror_1 ^ (k0 >> 63)
complement(k0) == Xor(Or(ShiftR(k0, 1), ShiftL(And(k0, {0}), 63)), ShiftR(k0, 63))

\* prince without the whitening of the output: state ^ k0_inv left out
prince_no_k0_inv(val, k0, k1, rc) == prince_core(Xor(val, k0), k1, rc)

prince(val, k0, k1, rc) ==
  LET k0_ror_1 == Or(ShiftR(k0, 1), ShiftL(And(k0, {0}), 63))
      k0_inv == Xor(k0_ror_1, ShiftR(k0, 63))
  IN  The({Xor(state, k0_inv) : state \in {prince_core(Xor(val, k0), k1, rc)}})

\* modified_prince with k1 | modifier for k1 ^ modifier
modified_prince_or(val, k0, k1, modifier) == prince(val, k0, Or(k1, modifier), RC_Apple)

modified_prince(val, k0, k1, modifier) == prince(val, k0, Xor(k1, modifier), RC_Apple)


\* ---------------------------------------------------------------- apple_kdf.py

\* class KdfUsage(IntEnum): APIAKey, APIBKey, APDAKey, APDBKey, APGAKey,
\* KERNKey, JAPIAKey, JAPIBKey
KdfUsage == {NibBits(n) : n \in {0, 1, 2, 3, 4, 5, 8, 9}}

\* modifier1 = ((usage & 0b1000) << 2) | 0b00000 | (usage & 0b111)
kdf_modifier1(usage) ==
  Or(Or(ShiftL(And(usage, NibBits(8)), 2), NibBits(0)), And(usage, NibBits(7)))

\* kdf_modifier2 with 0b10000 for 0b01000
kdf_modifier2_bit4(usage) ==
  Or(Or(ShiftL(And(usage, NibBits(8)), 2), ShiftL(NibBits(8), 1)), And(usage, NibBits(7)))

\* modifier2 = ((usage & 0b1000) << 2) | 0b01000 | (usage & 0b111)
kdf_modifier2(usage) ==
  Or(Or(ShiftL(And(usage, NibBits(8)), 2), NibBits(8)), And(usage, NibBits(7)))

\* kdf_okey without the second stage
kdf_okey_one_stage(ikey_hi, ikey_lo, data_hi, data_lo, modifier) ==
  Xor(modified_prince(data_hi, ikey_hi, ikey_lo, modifier), data_lo)

\* tmp = modified_prince(data_hi, ikey_hi, ikey_lo, modifier);
\* okey = modified_prince(tmp ^ data_lo, ikey_hi, ikey_lo, modifier)
kdf_okey(ikey_hi, ikey_lo, data_hi, data_lo, modifier) ==
  The({modified_prince(Xor(tmp, data_lo), ikey_hi, ikey_lo, modifier) :
         tmp \in {modified_prince(data_hi, ikey_hi, ikey_lo, modifier)}})

\* kdf with the modifiers of usage 0 whatever the usage
kdf_usage_ignored(ikey_hi, ikey_lo, data_hi, data_lo, usage) ==
  [modifier1 |-> kdf_modifier1(NibBits(0)),
   modifier2 |-> kdf_modifier2(NibBits(0)),
   ret |-> << kdf_okey(ikey_hi, ikey_lo, data_hi, data_lo, kdf_modifier1(NibBits(0))),
              kdf_okey(ikey_hi, ikey_lo, data_hi, data_lo, kdf_modifier2(NibBits(0))) >>]

\* kdf: the locals modifier1 and modifier2 at the return statement, and the
\* value returned, (okey_hi, okey_lo)
kdf(ikey_hi, ikey_lo, data_hi, data_lo, usage) ==
  [modifier1 |-> kdf_modifier1(usage),
   modifier2 |-> kdf_modifier2(usage),
   ret |-> << kdf_okey(ikey_hi, ikey_lo, data_hi, data_lo, kdf_modifier1(usage)),
              kdf_okey(ikey_hi, ikey_lo, data_hi, data_lo, kdf_modifier2(usage)) >>]

\* ---------------------------------------------------------------- feat_pauth.py

\* the outcome of a call that raised ValueError ("negative shift count")
\* instead of returning; -1 is no bit position, so this is no word
ValueError == {-1}

\* ((1 << (bit_to - bit_from + 1)) - 1) << bit_from; Python raises ValueError
\* for a negative shift count
_BitMask(bit_from, bit_to) ==
  IF bit_to - bit_from + 1 < 0 THEN ValueError
  ELSE ShiftL(0..(bit_to - bit_from), bit_from)

\* _PACMask with the range of the first mask ending at bit 55
_PACMask_to_55(bottom_pac_bit, tbi) ==
  LET ret == _BitMask(bottom_pac_bit, 55)
  IN  IF ret = ValueError THEN ValueError
      ELSE IF ~tbi THEN Or(ret, _BitMask(56, 63)) ELSE ret

_PACMask(bottom_pac_bit, tbi) ==
  LET ret == _BitMask(bottom_pac_bit, 54)
  IN  IF ret = ValueError THEN ValueError
      ELSE IF ~tbi THEN Or(ret, _BitMask(56, 63)) ELSE ret

\* Strip with ret ^= pac_mask applied to the uncleared pointer
Strip_toggle(ptr, bottom_pac_bit, tbi) ==
  LET pac_mask == _PACMask(bottom_pac_bit, tbi)
  IN  IF pac_mask = ValueError THEN ValueError
      ELSE IF And(ptr, ShiftL({0}, 55)) # {}
           THEN Xor(ptr, pac_mask)
           ELSE AndNot(ptr, pac_mask)

\* Strip sign-extending from bit 54
Strip_sign54(ptr, bottom_pac_bit, tbi) ==
  LET pac_mask == _PACMask(bottom_pac_bit, tbi)
  IN  IF pac_mask = ValueError THEN ValueError
      ELSE IF And(ptr, ShiftL({0}, 54)) # {}
           THEN Or(AndNot(ptr, pac_mask), pac_mask)
           ELSE AndNot(ptr, pac_mask)

Strip(ptr, bottom_pac_bit, tbi) ==
  LET pac_mask == _PACMask(bottom_pac_bit, tbi)
  IN  IF pac_mask = ValueError THEN ValueError
      ELSE IF And(ptr, ShiftL({0}, 55)) # {}
           THEN Or(AndNot(ptr, pac_mask), pac_mask)
           ELSE AndNot(ptr, pac_mask)

\* top_bit = 55 if tbi else 63
AddPAC_top_bit(tbi) == IF tbi THEN 55 ELSE 63

\* input_is_poisoned = extension_bits not in (0, extension_mask)
AddPAC_input_is_poisoned(ptr, bottom_pac_bit, tbi) ==
  LET extension_mask == _BitMask(bottom_pac_bit, AddPAC_top_bit(tbi))
      extension_bits == And(ptr, extension_mask)
  IN  extension_bits \notin {{}, extension_mask}

\* AddPAC_pac without the corruption of the code of a poisoned pointer
AddPAC_pac_noflip(input_is_poisoned, computed, tbi, have_enhanced_pac, have_enhanced_pac2) ==
  IF input_is_poisoned /\ have_enhanced_pac THEN {} ELSE computed

\* AddPAC_pac without the EnhancedPAC branch
AddPAC_pac_noepac(input_is_poisoned, computed, tbi, have_enhanced_pac, have_enhanced_pac2) ==
  IF input_is_poisoned /\ ~have_enhanced_pac2
  THEN Xor(computed, ShiftL({0}, AddPAC_top_bit(tbi) - 1))
  ELSE computed

\* AddPAC_pac flipping bit top_bit
AddPAC_pac_fliptop(input_is_poisoned, computed, tbi, have_enhanced_pac, have_enhanced_pac2) ==
  IF input_is_poisoned /\ have_enhanced_pac THEN {}
  ELSE IF input_is_poisoned /\ ~have_enhanced_pac2
       THEN Xor(computed, ShiftL({0}, AddPAC_top_bit(tbi)))
       ELSE computed

\* AddPAC_pac flipping bit top_bit - 8
AddPAC_pac_flip_low(input_is_poisoned, computed, tbi, have_enhanced_pac, have_enhanced_pac2) ==
  IF input_is_poisoned /\ have_enhanced_pac THEN {}
  ELSE IF input_is_poisoned /\ ~have_enhanced_pac2
       THEN Xor(computed, ShiftL({0}, AddPAC_top_bit(tbi) - 8))
       ELSE computed

\* the value of pac after the if / else of AddPAC; computed is the value of
\* modified_prince(original_ptr, k_hi, k_lo, modifier), which is evaluated in
\* the else branch only
AddPAC_pac(input_is_poisoned, computed, tbi, have_enhanced_pac, have_enhanced_pac2) ==
  IF input_is_poisoned /\ have_enhanced_pac THEN {}
  ELSE IF input_is_poisoned /\ ~have_enhanced_pac2
       THEN Xor(computed, ShiftL({0}, AddPAC_top_bit(tbi) - 1))
       ELSE computed

\* AddPAC_merge with ret |= pac, the mask forgotten
AddPAC_merge_nomask(ptr, pac, pac_mask, have_enhanced_pac2) ==
  IF have_enhanced_pac2 THEN Xor(ptr, pac)
  ELSE Or(AndNot(ptr, pac_mask), pac)

\* AddPAC_merge with ret |= (pac & pac_mask) on the EnhancedPAC2 path
AddPAC_merge_or(ptr, pac, pac_mask, have_enhanced_pac2) ==
  IF have_enhanced_pac2 THEN Or(ptr, And(pac, pac_mask))
  ELSE Or(AndNot(ptr, pac_mask), And(pac, pac_mask))

\* AddPAC_merge without ret &= ~pac_mask before ret |= (pac & pac_mask)
AddPAC_merge_keep(ptr, pac, pac_mask, have_enhanced_pac2) ==
  IF have_enhanced_pac2 THEN Xor(ptr, And(pac, pac_mask))
  ELSE Or(ptr, And(pac, pac_mask))

\* AddPAC_merge with ret ^= pac on the EnhancedPAC2 path, the mask forgotten
AddPAC_merge_xor_unmasked(ptr, pac, pac_mask, have_enhanced_pac2) ==
  IF have_enhanced_pac2 THEN Xor(ptr, pac)
  ELSE Or(AndNot(ptr, pac_mask), And(pac, pac_mask))

\* ret = ptr, then the merge of pac under pac_mask
AddPAC_merge(ptr, pac, pac_mask, have_enhanced_pac2) ==
  IF have_enhanced_pac2 THEN Xor(ptr, And(pac, pac_mask))
  ELSE Or(AndNot(ptr, pac_mask), And(pac, pac_mask))

\* AddPAC: the locals input_is_poisoned and pac at the return statement, and
\* the value returned (ret)
AddPAC(ptr, k_hi, k_lo, modifier, bottom_pac_bit, tbi, have_enhanced_pac, have_enhanced_pac2) ==
  LET original_ptr == Strip(ptr, bottom_pac_bit, tbi)
  IN  IF original_ptr = ValueError
      THEN [input_is_poisoned |-> FALSE, pac |-> {}, ret |-> ValueError]
      ELSE LET poisoned == AddPAC_input_is_poisoned(ptr, bottom_pac_bit, tbi)
           IN  The({[input_is_poisoned |-> poisoned,
                     pac |-> pac_v,
                     ret |-> AddPAC_merge(ptr, pac_v, _PACMask(bottom_pac_bit, tbi),
                                          have_enhanced_pac2)] :
                      pac_v \in {AddPAC_pac(poisoned,
                                            modified_prince(original_ptr, k_hi, k_lo, modifier),
                                            tbi, have_enhanced_pac, have_enhanced_pac2)}})

\* Auth_error_code with the two codes exchanged
Auth_error_code_swapped(b_key) == IF b_key THEN NibBits(1) ELSE NibBits(2)

\* error_code = 0b10 if b_key else 0b01
Auth_error_code(b_key) == IF b_key THEN NibBits(2) ELSE NibBits(1)

\* Auth_error_code_shift one bit higher
Auth_error_code_shift_up(tbi) == IF tbi THEN 54 ELSE 62

\* error_code_shift = 53 if tbi else 61
Auth_error_code_shift(tbi) == IF tbi THEN 53 ELSE 61

\* Auth_ret without ret &= ~(0b11 << error_code_shift)
Auth_ret_noclear(ptr, original_ptr, pac, pac_mask, b_key, tbi, have_enhanced_pac2) ==
  IF have_enhanced_pac2 THEN Xor(ptr, And(pac, pac_mask))
  ELSE IF And(ptr, pac_mask) # And(pac, pac_mask)
       THEN Or(original_ptr, ShiftL(Auth_error_code(b_key), Auth_error_code_shift(tbi)))
       ELSE original_ptr

\* Auth_ret without the comparison: the failure branch is never taken
Auth_ret_no_compare(ptr, original_ptr, pac, pac_mask, b_key, tbi, have_enhanced_pac2) ==
  IF have_enhanced_pac2 THEN Xor(ptr, And(pac, pac_mask)) ELSE original_ptr

\* the value Auth returns, from its locals
Auth_ret(ptr, original_ptr, pac, pac_mask, b_key, tbi, have_enhanced_pac2) ==
  IF have_enhanced_pac2 THEN Xor(ptr, And(pac, pac_mask))
  ELSE IF And(ptr, pac_mask) # And(pac, pac_mask)
       THEN Or(AndNot(original_ptr, ShiftL(NibBits(3), Auth_error_code_shift(tbi))),
               ShiftL(Auth_error_code(b_key), Auth_error_code_shift(tbi)))
       ELSE original_ptr

\* Auth: the local pac at the return statement, and the value returned (ret)
Auth(ptr, k_hi, k_lo, b_key, modifier, bottom_pac_bit, tbi, have_enhanced_pac2) ==
  LET original_ptr == Strip(ptr, bottom_pac_bit, tbi)
  IN  IF original_ptr = ValueError
      THEN [pac |-> {}, ret |-> ValueError]
      ELSE The({[pac |-> pac_v,
                 ret |-> Auth_ret(ptr, original_ptr, pac_v,
                                  _PACMask(bottom_pac_bit, tbi),
                                  b_key, tbi, have_enhanced_pac2)] :
                  pac_v \in {modified_prince(original_ptr, k_hi, k_lo, modifier)}})

\* ---------------------------------------------------------------- execution, step by step

\* An invocation runs in a frame: the index of the call in Invocations (its
\* function and arguments), the statement it is at (pc), its locals, the
\* number of loop iterations it has executed, and what it returned.
\*   state, i      the locals state and i of s .. prince_core
\*   k0, k1, rc    the arguments of the call of prince it is in
\*   stage         the call of modified_prince kdf is in (1 .. 4)
\*   acc           ret of s .. m_prime while it is built; okey_hi of kdf

\* s: one iteration of for i in range(0, 64, 4)
s_iteration(state, acc, i) == Or(acc, ShiftL(NibBits(S[Nybble(state, i) + 1]), i))

\* s_inv: one iteration of for i in range(0, 64, 4)
s_inv_iteration(state, acc, i) == Or(acc, ShiftL(NibBits(Index(S, Nybble(state, i))), i))

\* sr: one iteration of for i in range(16)
sr_iteration(state, acc, i) == Or(acc, set_nybble(extract_nybble(state, SR[i + 1]), i))

\* sr_inv: one iteration of for i in range(16)
sr_inv_iteration(state, acc, i) ==
  Or(acc, set_nybble(extract_nybble(state, Index(SR, i)), i))

\* m_prime: one iteration of for i in range(0, 64): ret ^= state_i * M_PRIME[i]
m_prime_iteration(state, acc, i) ==
  IF (63 - i) \in state THEN Xor(acc, M_PRIME[i + 1]) ELSE acc

\* the values the loop variable of a function takes
\* range(0, 64, 4), range(16), range(0, 64)
loop_range(fnname) ==
  CASE fnname \in {"s", "s_inv"} -> NybbleShifts
    [] fnname \in {"sr", "sr_inv"} -> 0..15
    [] fnname = "m_prime" -> 0..63

\* the step from one value of the loop variable to the next
loop_stride(fnname) == IF fnname \in {"s", "s_inv"} THEN 4 ELSE 1

\* range(1, 6) with one value more
forward_range_long == 1..6

\* range(1, 6) of prince_core
forward_range == 1..5

\* range(6, 11) without its last value
backward_range_short == 6..9

\* range(6, 11) of prince_core
backward_range == 6..10

\* the frame of a call that has not started
NewFrame(c) ==
  [call |-> c, pc |-> "call", state |-> {}, i |-> 0, k0 |-> {}, k1 |-> {},
   rc |-> "RC", stage |-> 0, acc |-> {}, loops |-> 0, ret |-> << >>]

\* the call returns v: ret holds the values returned, none before
Return(fr, v) == [fr EXCEPT !.pc = "done", !.ret = << v >>]

\* prince(value, key0, key1, table) is entered: state = val ^ k0, and in
\* prince_core state ^= k1, state ^= rc[0], up to the first for statement
\* (prince_core itself is entered with key0 = 0, which whitens nothing)
EnterPrince(fr, value, key0, key1, table) ==
  [fr EXCEPT !.k0 = key0, !.k1 = key1, !.rc = table,
             !.state = Xor(Xor(Xor(value, key0), key1), Table(table)[1]),
             !.i = 1, !.pc = "forward"]

\* ---------------------------------------------------------------- inputs

\* the pointers, keys and modifiers the calls are made with
PointerSamples ==
  << Hex(<< 0, 0, 0, 0, 0, 0, 0, 1, 0, 0, 0, 0, 4, 0, 0, 0>>),  \* 0x0000000100004000
     Hex(<<15,15,15,15,15,15,15, 0, 0, 7, 0, 0, 4, 0, 0, 0>>),  \* 0xfffffff007004000
     Hex(<< 0, 0, 2, 0, 0, 0, 0, 0, 0, 0, 0, 0, 1, 0, 0, 0>>),  \* 0x0020000000001000
     Hex(<< 5,10, 4, 0, 0, 0, 0, 0, 0, 0, 0, 0, 3, 0, 0, 0>>),  \* 0x5a40000000003000
     Hex(<< 0, 0, 6, 0, 0, 0, 0, 0, 0, 0, 0, 0, 1, 0, 0, 0>>),  \* 0x0060000000001000
     Hex(<<15,15,15,15,15,15,15,15,15,15,15,15,15,15,15,15>>),  \* 0xffffffffffffffff
     Hex(<< 0, 0,10, 0, 0, 0, 0, 0, 0, 0, 0, 0, 3, 0, 0, 0>>)   \* 0x00a0000000003000
  >>

\* << k_hi, k_lo, modifier >>
KeySamples ==
  << << Hex(<<15,14,14,13,15,10,12,14,15,14,14,13,15,10,13, 0>>),   \* 0xfeedfacefeedfad0
        Hex(<<15,14,14,13,15,10,12,14,15,14,14,13,15,10,12,15>>),   \* 0xfeedfacefeedfacf
        {} >>,
     << Hex(<< 0, 1, 2, 3, 4, 5, 6, 7, 8, 9,10,11,12,13,14,15>>),   \* 0x0123456789abcdef
        Hex(<<15,14,13,12,11,10, 9, 8, 7, 6, 5, 4, 3, 2, 1, 0>>),   \* 0xfedcba9876543210
        Hex(<<13,14,10,13,11,14,14,15>>) >>,                        \* 0xdeadbeef
     << {}, {}, {} >>
  >>

NumPointers == 5
NumKeys == 2

Pointers == {PointerSamples[i] : i \in 1..NumPointers} \cap {PointerSamples[i] : i \in DOMAIN PointerSamples}
Keys == {KeySamples[i] : i \in 1..NumKeys} \cap {KeySamples[i] : i \in DOMAIN KeySamples}

\* the maximal field, the default of the signatures, the positions around the
\* error code and the sign bit, and positions above bit 55
BottomPacBits == {0, 39, 53, 54, 55, 56, 63}

\* ---------------------------------------------------------------- invocations

\* the calls that are run step by step: the functions that are called
\* concurrently first (ConcurrentCalls), then the others
Invocations ==
  << [fnname |-> "Strip", ptr |-> PointerSamples[2], bottom_pac_bit |-> 39, tbi |-> FALSE],
     [fnname |-> "kdf", ikey_hi |-> KeySamples[2][1], ikey_lo |-> KeySamples[2][2],
      data_hi |-> KeySamples[1][1], data_lo |-> KeySamples[1][2], usage |-> NibBits(1)],
     [fnname |-> "modified_prince", val |-> PointerSamples[1], k0 |-> KeySamples[1][1],
      k1 |-> KeySamples[1][2], modifier |-> KeySamples[2][3]],
     [fnname |-> "AddPAC", ptr |-> PointerSamples[4], k_hi |-> KeySamples[1][1],
      k_lo |-> KeySamples[1][2], modifier |-> KeySamples[1][3], bottom_pac_bit |-> 39,
      tbi |-> FALSE, have_enhanced_pac |-> FALSE, have_enhanced_pac2 |-> FALSE],
     [fnname |-> "Auth", ptr |-> PointerSamples[1], k_hi |-> KeySamples[2][1],
      k_lo |-> KeySamples[2][2], b_key |-> TRUE, modifier |-> KeySamples[2][3],
      bottom_pac_bit |-> 39, tbi |-> TRUE, have_enhanced_pac2 |-> FALSE],
     [fnname |-> "Strip", ptr |-> PointerSamples[1], bottom_pac_bit |-> 56, tbi |-> FALSE],
     [fnname |-> "AddPAC", ptr |-> PointerSamples[4], k_hi |-> KeySamples[1][1],
      k_lo |-> KeySamples[1][2], modifier |-> KeySamples[1][3], bottom_pac_bit |-> 39,
      tbi |-> FALSE, have_enhanced_pac |-> TRUE, have_enhanced_pac2 |-> FALSE],
     [fnname |-> "Auth", ptr |-> PointerSamples[2], k_hi |-> KeySamples[1][1],
      k_lo |-> KeySamples[1][2], b_key |-> FALSE, modifier |-> KeySamples[1][3],
      bottom_pac_bit |-> 39, tbi |-> FALSE, have_enhanced_pac2 |-> TRUE],
     [fnname |-> "prince", val |-> PointerSamples[2], k0 |-> KeySamples[2][1],
      k1 |-> KeySamples[2][2], rc |-> "RC"],
     [fnname |-> "prince", val |-> PointerSamples[6], k0 |-> PointerSamples[6],
      k1 |-> PointerSamples[6], rc |-> "RC_Apple"],
     [fnname |-> "AddPAC", ptr |-> PointerSamples[6], k_hi |-> PointerSamples[6],
      k_lo |-> KeySamples[1][2], modifier |-> PointerSamples[6], bottom_pac_bit |-> 0,
      tbi |-> FALSE, have_enhanced_pac |-> FALSE, have_enhanced_pac2 |-> TRUE],
     [fnname |-> "Auth", ptr |-> PointerSamples[6], k_hi |-> KeySamples[2][1],
      k_lo |-> PointerSamples[6], b_key |-> TRUE, modifier |-> KeySamples[2][3],
      bottom_pac_bit |-> 0, tbi |-> FALSE, have_enhanced_pac2 |-> FALSE],
     [fnname |-> "prince_core", state |-> PointerSamples[3], k1 |-> KeySamples[2][2],
      rc |-> "RC"],
     [fnname |-> "s", state |-> PointerSamples[2]],
     [fnname |-> "s_inv", state |-> PointerSamples[2]],
     [fnname |-> "sr", state |-> PointerSamples[2]],
     [fnname |-> "sr_inv", state |-> PointerSamples[2]],
     [fnname |-> "m_prime", state |-> PointerSamples[2]],
     [fnname |-> "m_prime", state |-> {}],
     [fnname |-> "s", state |-> PointerSamples[6]],
     [fnname |-> "s_inv", state |-> {}],
     [fnname |-> "sr", state |-> PointerSamples[5]],
     [fnname |-> "sr_inv", state |-> PointerSamples[6]],
     [fnname |-> "prince_core", state |-> {}, k1 |-> {}, rc |-> "RC_Apple"]
  >>

\* AddPAC, Auth, Strip, kdf, prince and modified_prince
ConcurrentCalls == {c \in DOMAIN Invocations :
                      Invocations[c].fnname \in {"AddPAC", "Auth", "Strip", "kdf",
                                                 "prince", "modified_prince"}}

\* what a call returns when it runs alone, from start to end
Alone(c) ==
  LET a == Invocations[c]
  IN  CASE a.fnname = "Strip" -> Strip(a.ptr, a.bottom_pac_bit, a.tbi)
        [] a.fnname = "AddPAC" ->
             AddPAC(a.ptr, a.k_hi, a.k_lo, a.modifier, a.bottom_pac_bit, a.tbi,
                    a.have_enhanced_pac, a.have_enhanced_pac2).ret
        [] a.fnname = "Auth" ->
             Auth(a.ptr, a.k_hi, a.k_lo, a.b_key, a.modifier, a.bottom_pac_bit, a.tbi,
                  a.have_enhanced_pac2).ret
        [] a.fnname = "kdf" -> kdf(a.ikey_hi, a.ikey_lo, a.data_hi, a.data_lo, a.usage).ret
        [] a.fnname = "modified_prince" -> modified_prince(a.val, a.k0, a.k1, a.modifier)
        [] a.fnname = "prince" -> prince(a.val, a.k0, a.k1, Table(a.rc))
        [] a.fnname = "prince_core" -> prince_core(a.state, a.k1, Table(a.rc))
        [] a.fnname = "s" -> s(a.state)
        [] a.fnname = "s_inv" -> s_inv(a.state)
        [] a.fnname = "sr" -> sr(a.state)
        [] a.fnname = "sr_inv" -> sr_inv(a.state)
        [] a.fnname = "m_prime" -> m_prime(a.state)

\* Alone, call by call
AloneResults == [c \in DOMAIN Invocations |-> Alone(c)]

\* the first statements of a call, up to its first loop or its first call of
\* modified_prince, or to its return
StepCall(fr, a) ==
  CASE a.fnname = "Strip" -> Return(fr, Strip(a.ptr, a.bottom_pac_bit, a.tbi))
    [] a.fnname = "AddPAC" ->
         IF Strip(a.ptr, a.bottom_pac_bit, a.tbi) = ValueError
         THEN Return(fr, ValueError)
         ELSE IF AddPAC_input_is_poisoned(a.ptr, a.bottom_pac_bit, a.tbi)
                   /\ a.have_enhanced_pac
              THEN [fr EXCEPT !.pc = "resume"]
              ELSE EnterPrince(fr, Strip(a.ptr, a.bottom_pac_bit, a.tbi), a.k_hi,
                               Xor(a.k_lo, a.modifier), "RC_Apple")
    [] a.fnname = "Auth" ->
         IF Strip(a.ptr, a.bottom_pac_bit, a.tbi) = ValueError
         THEN Return(fr, ValueError)
         ELSE EnterPrince(fr, Strip(a.ptr, a.bottom_pac_bit, a.tbi), a.k_hi,
                          Xor(a.k_lo, a.modifier), "RC_Apple")
    [] a.fnname = "kdf" ->
         EnterPrince([fr EXCEPT !.stage = 1], a.data_hi, a.ikey_hi,
                     Xor(a.ikey_lo, kdf_modifier1(a.usage)), "RC_Apple")
    [] a.fnname = "modified_prince" ->
         EnterPrince(fr, a.val, a.k0, Xor(a.k1, a.modifier), "RC_Apple")
    [] a.fnname = "prince" -> EnterPrince(fr, a.val, a.k0, a.k1, a.rc)
    [] a.fnname = "prince_core" -> EnterPrince(fr, a.state, {}, a.k1, a.rc)
    [] OTHER -> [fr EXCEPT !.state = a.state, !.acc = {}, !.i = 0, !.pc = "loop"]

\* one iteration of the loop of s, s_inv, sr, sr_inv or m_prime, and the
\* return after the last
StepLoop(fr, a) ==
  LET acc == CASE a.fnname = "s" -> s_iteration(fr.state, fr.acc, fr.i)
               [] a.fnname = "s_inv" -> s_inv_iteration(fr.state, fr.acc, fr.i)
               [] a.fnname = "sr" -> sr_iteration(fr.state, fr.acc, fr.i)
               [] a.fnname = "sr_inv" -> sr_inv_iteration(fr.state, fr.acc, fr.i)
               [] a.fnname = "m_prime" -> m_prime_iteration(fr.state, fr.acc, fr.i)
      next == fr.i + loop_stride(a.fnname)
  IN  IF next \in loop_range(a.fnname)
      THEN [fr EXCEPT !.acc = acc, !.i = next, !.loops = fr.loops + 1]
      ELSE Return([fr EXCEPT !.acc = acc, !.loops = fr.loops + 1], acc)

\* prince_core: one iteration of for i in range(1, 6)
StepForward(fr) ==
  LET st == forward_round(fr.state, fr.k1, Table(fr.rc), fr.i)
  IN  IF fr.i + 1 \in forward_range
      THEN [fr EXCEPT !.state = st, !.i = fr.i + 1, !.loops = fr.loops + 1]
      ELSE [fr EXCEPT !.state = st, !.loops = fr.loops + 1, !.pc = "middle"]

\* prince_core: state = s(state); state = m_prime(state); state = s_inv(state)
StepMiddle(fr) == [fr EXCEPT !.state = middle(fr.state), !.i = 6, !.pc = "backward"]

\* prince_core: one iteration of for i in range(6, 11)
StepBackward(fr) ==
  LET st == backward_round(fr.state, fr.k1, Table(fr.rc), fr.i)
  IN  IF fr.i + 1 \in backward_range
      THEN [fr EXCEPT !.state = st, !.i = fr.i + 1, !.loops = fr.loops + 1]
      ELSE [fr EXCEPT !.state = st, !.loops = fr.loops + 1, !.pc = "exit"]

\* prince_core: state ^= rc[11]; state ^= k1; return state, and in prince
\* state = state ^ k0_inv; return state: the call itself returns, or its
\* caller (AddPAC, Auth, kdf) resumes with the value in state
StepExit(fr, a) ==
  LET st == Xor(Xor(Xor(fr.state, Table(fr.rc)[12]), fr.k1), complement(fr.k0))
  IN  IF a.fnname \in {"prince_core", "prince", "modified_prince"}
      THEN Return([fr EXCEPT !.state = st], st)
      ELSE [fr EXCEPT !.state = st, !.pc = "resume"]

\* the statements of AddPAC, Auth and kdf after a call of modified_prince,
\* up to the next call or the return
StepResume(fr, a) ==
  CASE a.fnname = "AddPAC" ->
         Return(fr, AddPAC_merge(a.ptr,
                                 AddPAC_pac(AddPAC_input_is_poisoned(a.ptr, a.bottom_pac_bit, a.tbi),
                                            fr.state, a.tbi, a.have_enhanced_pac,
                                            a.have_enhanced_pac2),
                                 _PACMask(a.bottom_pac_bit, a.tbi), a.have_enhanced_pac2))
    [] a.fnname = "Auth" ->
         Return(fr, Auth_ret(a.ptr, Strip(a.ptr, a.bottom_pac_bit, a.tbi), fr.state,
                             _PACMask(a.bottom_pac_bit, a.tbi), a.b_key, a.tbi,
                             a.have_enhanced_pac2))
    [] a.fnname = "kdf" /\ fr.stage = 1 ->
         EnterPrince([fr EXCEPT !.stage = 2], Xor(fr.state, a.data_lo), a.ikey_hi,
                     Xor(a.ikey_lo, kdf_modifier1(a.usage)), "RC_Apple")
    [] a.fnname = "kdf" /\ fr.stage = 2 ->
         EnterPrince([fr EXCEPT !.stage = 3, !.acc = fr.state], a.data_hi, a.ikey_hi,
                     Xor(a.ikey_lo, kdf_modifier2(a.usage)), "RC_Apple")
    [] a.fnname = "kdf" /\ fr.stage = 3 ->
         EnterPrince([fr EXCEPT !.stage = 4], Xor(fr.state, a.data_lo), a.ikey_hi,
                     Xor(a.ikey_lo, kdf_modifier2(a.usage)), "RC_Apple")
    [] a.fnname = "kdf" /\ fr.stage = 4 -> Return(fr, << fr.acc, fr.state >>)

\* the next step of the call a in its frame
StepFrame(fr, a) ==
  CASE fr.pc = "call" -> StepCall(fr, a)
    [] fr.pc = "loop" -> StepLoop(fr, a)
    [] fr.pc = "forward" -> StepForward(fr)
    [] fr.pc = "middle" -> StepMiddle(fr)
    [] fr.pc = "backward" -> StepBackward(fr)
    [] fr.pc = "exit" -> StepExit(fr, a)
    [] fr.pc = "resume" -> StepResume(fr, a)

\* Step with the local state of prince_core kept in one variable of the
\* module, which every invocation reads and writes
Step_shared_state(frs, tabs, t) ==
  LET stepped == StepFrame(frs[t], Invocations[frs[t].call])
  IN  [frames |-> [u \in DOMAIN frs |->
                     IF u = t THEN stepped ELSE [frs[u] EXCEPT !.state = stepped.state]],
       tables |-> tabs]

\* invocation t takes its next step: the step reads and writes the frame of
\* t (arguments and locals) and reads the tables; no statement of prince.py,
\* apple_kdf.py or feat_pauth.py assigns to a table or to another global
Step(frs, tabs, t) ==
  [frames |-> [frs EXCEPT ![t] = StepFrame(frs[t], Invocations[frs[t].call])],
   tables |-> tabs]

\* ---------------------------------------------------------------- calls

VARIABLES
  p,                    \* the pointer the caller holds
  k_hi, k_lo, modifier, \* the key and the diversifier of the calls
  bottom_pac_bit, tbi,  \* the PAC field of the calls
  have_enhanced_pac, have_enhanced_pac2, b_key,  \* the flags of the last call
  op,                   \* the call made last
  ptr,                  \* its argument ptr
  ret,                  \* what it returned, or ValueError
  pac,                  \* the local pac of AddPAC / Auth when it returned
  input_is_poisoned     \* the local input_is_poisoned of AddPAC

\* the calls of kdf
VARIABLES
  ikey_hi, ikey_lo,     \* the input key of the calls
  data_hi, data_lo,     \* the input data of the calls
  usage,                \* the usage of the last call
  modifier1, modifier2, \* the locals modifier1, modifier2 of kdf when it returned
  okey,                 \* what it returned, (okey_hi, okey_lo)
  okey_first            \* what the first call returned

\* the calls of the functions of prince.py
VARIABLES
  val,                  \* the word the caller holds
  k0, k1,               \* the key of the calls of prince
  rc,                   \* their round constants: "RC" or "RC_Apple"
  fn,                   \* the function called first
  out,                  \* what it returned
  out2                  \* what the call made on out returned

\* the invocations that run step by step
VARIABLES
  frames,               \* the frame of each running invocation
  tables                \* the lists S, SR, M_PRIME, RC, RC_Apple of prince.py

pac_vars == << p, k_hi, k_lo, modifier, bottom_pac_bit, tbi, have_enhanced_pac,
               have_enhanced_pac2, b_key, ptr, ret, pac, input_is_poisoned >>

kdf_vars == << ikey_hi, ikey_lo, data_hi, data_lo, usage, modifier1, modifier2,
               okey, okey_first >>

prince_vars == << val, k0, k1, rc, fn, out, out2 >>

run_vars == << frames, tables >>

not_pac_vars == << kdf_vars, prince_vars, run_vars >>

not_kdf_vars == << pac_vars, prince_vars, run_vars >>

not_prince_vars == << pac_vars, kdf_vars, run_vars >>

not_run_vars == << op, pac_vars, kdf_vars, prince_vars >>

vars == << op, pac_vars, kdf_vars, prince_vars, run_vars >>

\* the module-level lists of prince.py as the module defines them
ConstantTables == [S |-> S, SR |-> SR, M_PRIME |-> M_PRIME, RC |-> RC, RC_Apple |-> RC_Apple]

\* no call of AddPAC, Auth or Strip is made
NoPAC ==
  /\ p = {} /\ k_hi = {} /\ k_lo = {} /\ modifier = {}
  /\ bottom_pac_bit = 0 /\ tbi = FALSE
  /\ have_enhanced_pac = FALSE /\ have_enhanced_pac2 = FALSE /\ b_key = FALSE
  /\ ptr = {} /\ ret = {} /\ pac = {} /\ input_is_poisoned = FALSE

\* no call of kdf is made
NoKdf ==
  /\ ikey_hi = {} /\ ikey_lo = {} /\ data_hi = {} /\ data_lo = {}
  /\ usage = {} /\ modifier1 = {} /\ modifier2 = {}
  /\ okey = << {}, {} >> /\ okey_first = << {}, {} >>

\* no call of a function of prince.py is made
NoPrince ==
  /\ val = {} /\ k0 = {} /\ k1 = {} /\ rc = "RC" /\ fn = "none"
  /\ out = {} /\ out2 = {}

\* no invocation runs step by step
NoRun ==
  /\ frames = << >>
  /\ tables = ConstantTables

args == << p, k_hi, k_lo, modifier, bottom_pac_bit, tbi >>

\* no call made yet; the flags hold the defaults of the signatures
Init ==
  /\ p \in Pointers
  /\ \E k \in Keys : k_hi = k[1] /\ k_lo = k[2] /\ modifier = k[3]
  /\ bottom_pac_bit \in BottomPacBits
  /\ tbi \in BOOLEAN
  /\ have_enhanced_pac = FALSE
  /\ have_enhanced_pac2 = FALSE
  /\ b_key = FALSE
  /\ op = "none"
  /\ ptr = {}
  /\ ret = {}
  /\ pac = {}
  /\ input_is_poisoned = FALSE
  /\ NoKdf
  /\ NoPrince
  /\ NoRun

\* Strip(p, bottom_pac_bit, tbi)
CallStrip ==
  /\ op = "none"
  /\ op' = "Strip"
  /\ ptr' = p
  /\ ret' = Strip(p, bottom_pac_bit, tbi)
  /\ UNCHANGED << not_pac_vars, args, have_enhanced_pac, have_enhanced_pac2, b_key, pac, input_is_poisoned >>

\* AddPAC(p, k_hi, k_lo, modifier, bottom_pac_bit, tbi, ehp, ehp2)
CallAddPAC ==
  /\ op = "none"
  /\ \E ehp \in BOOLEAN, ehp2 \in BOOLEAN :
       /\ have_enhanced_pac' = ehp
       /\ have_enhanced_pac2' = ehp2
       /\ \E r \in {AddPAC(p, k_hi, k_lo, modifier, bottom_pac_bit, tbi, ehp, ehp2)} :
            /\ ret' = r.ret
            /\ pac' = r.pac
            /\ input_is_poisoned' = r.input_is_poisoned
  /\ op' = "AddPAC"
  /\ ptr' = p
  /\ UNCHANGED << not_pac_vars, args, b_key >>

\* Auth(p, k_hi, k_lo, bk, modifier, bottom_pac_bit, tbi, ehp2): the caller
\* authenticates the pointer it holds
CallAuth ==
  /\ op = "none"
  /\ \E bk \in BOOLEAN, ehp2 \in BOOLEAN :
       /\ b_key' = bk
       /\ have_enhanced_pac2' = ehp2
       /\ \E r \in {Auth(p, k_hi, k_lo, bk, modifier, bottom_pac_bit, tbi, ehp2)} :
            /\ ret' = r.ret
            /\ pac' = r.pac
  /\ op' = "Auth"
  /\ ptr' = p
  /\ UNCHANGED << not_pac_vars, args, have_enhanced_pac, input_is_poisoned >>

\* Auth(AddPAC(p, ...), k_hi, k_lo, bk, modifier, bottom_pac_bit, tbi, ehp2):
\* the caller authenticates what AddPAC returned, with the key, the modifier,
\* the field and the EnhancedPAC2 flag it signed with
CallAuthSigned ==
  /\ op = "AddPAC"
  /\ ret # ValueError
  /\ \E bk \in BOOLEAN :
       /\ b_key' = bk
       /\ \E r \in {Auth(ret, k_hi, k_lo, bk, modifier, bottom_pac_bit, tbi,
                         have_enhanced_pac2)} :
            /\ ret' = r.ret
            /\ pac' = r.pac
  /\ op' = "AuthSigned"
  /\ ptr' = ret
  /\ UNCHANGED << not_pac_vars, args, have_enhanced_pac, have_enhanced_pac2, input_is_poisoned >>

\* the bits a caller changes in a signed pointer: the lowest bit of the PAC
\* field, its highest bit, or all of its bits
Tamperings(pac_mask) ==
  IF pac_mask = {} THEN {}
  ELSE {{CHOOSE b \in pac_mask : \A c \in pac_mask : b <= c},
        {CHOOSE b \in pac_mask : \A c \in pac_mask : b >= c},
        pac_mask}

\* Auth(AddPAC(p, ...) ^ flip, k_hi, k_lo, bk, modifier, bottom_pac_bit, tbi,
\* False): the caller authenticates a signed pointer after bits of its PAC
\* field were changed
CallAuthTampered ==
  /\ op = "AddPAC"
  /\ ret # ValueError
  /\ ~have_enhanced_pac2
  /\ \E bk \in BOOLEAN, flip \in Tamperings(_PACMask(bottom_pac_bit, tbi)) :
       /\ b_key' = bk
       /\ ptr' = Xor(ret, flip)
       /\ \E r \in {Auth(Xor(ret, flip), k_hi, k_lo, bk, modifier, bottom_pac_bit, tbi,
                         FALSE)} :
            /\ ret' = r.ret
            /\ pac' = r.pac
  /\ op' = "AuthTampered"
  /\ UNCHANGED << not_pac_vars, args, have_enhanced_pac, have_enhanced_pac2, input_is_poisoned >>

\* the words d a caller XORs into both k_lo and modifier
KeyShifts == {0..63, {0, 63}}

\* AddPAC(p, k_hi, k_lo ^ d, modifier ^ d, ...) after AddPAC(p, k_hi, k_lo,
\* modifier, ...), the other arguments the same
CallAddPACShifted ==
  /\ op = "AddPAC"
  /\ \E d \in KeyShifts :
       /\ k_lo' = Xor(k_lo, d)
       /\ modifier' = Xor(modifier, d)
       /\ \E r \in {AddPAC(p, k_hi, Xor(k_lo, d), Xor(modifier, d), bottom_pac_bit, tbi,
                           have_enhanced_pac, have_enhanced_pac2)} :
            /\ ret' = r.ret
            /\ pac' = r.pac
            /\ input_is_poisoned' = r.input_is_poisoned
  /\ op' = "AddPACShifted"
  /\ ptr' = p
  /\ UNCHANGED << not_pac_vars, p, k_hi, bottom_pac_bit, tbi, have_enhanced_pac,
                  have_enhanced_pac2, b_key >>

\* Auth(p, k_hi, k_lo ^ d, b_key, modifier ^ d, ...) after Auth(p, k_hi, k_lo,
\* b_key, modifier, ...), the other arguments the same
CallAuthShifted ==
  /\ op = "Auth"
  /\ \E d \in KeyShifts :
       /\ k_lo' = Xor(k_lo, d)
       /\ modifier' = Xor(modifier, d)
       /\ \E r \in {Auth(p, k_hi, Xor(k_lo, d), b_key, Xor(modifier, d), bottom_pac_bit,
                         tbi, have_enhanced_pac2)} :
            /\ ret' = r.ret
            /\ pac' = r.pac
  /\ op' = "AuthShifted"
  /\ ptr' = p
  /\ UNCHANGED << not_pac_vars, p, k_hi, bottom_pac_bit, tbi, have_enhanced_pac,
                  have_enhanced_pac2, b_key, input_is_poisoned >>

Next ==
  \/ CallStrip \/ CallAddPAC \/ CallAuth \/ CallAuthSigned \/ CallAuthTampered
  \/ CallAddPACShifted \/ CallAuthShifted

Spec == Init /\ [][Next]_vars

\* ---------------------------------------------------------------- calls of kdf

\* << data_hi, data_lo >>: the data of the example in kdf's docstring; others
DataSamples ==
  << << Hex(<<15,14,14,13,15,10,12,14,15,14,14,13,15,10,13, 0>>),   \* 0xfeedfacefeedfad0
        Hex(<<15,14,14,13,15,10,12,14,15,14,14,13,15,10,12,15>>) >>, \* 0xfeedfacefeedfacf
     << {}, {} >>,
     << Hex(<< 0, 1, 2, 3, 4, 5, 6, 7, 8, 9,10,11,12,13,14,15>>),   \* 0x0123456789abcdef
        Hex(<< 8, 0, 0, 0, 0, 0, 0, 0, 0, 0, 0, 0, 0, 0, 0, 1>>) >>, \* 0x8000000000000001
     << Hex(<<15,15,15,15,15,15,15,15,15,15,15,15,15,15,15,15>>),   \* 0xffffffffffffffff
        Hex(<< 0, 0, 0, 0, 0, 0, 0, 0, 0, 0, 0, 0, 0, 0, 0, 1>>) >>  \* 0x0000000000000001
  >>

NumData == 3

Data == {DataSamples[i] : i \in 1..NumData} \cap {DataSamples[i] : i \in DOMAIN DataSamples}

\* the 4-bit usage values
Usages == {NibBits(n) : n \in 0..15}

\* no call made yet
KdfInit ==
  /\ op = "none"
  /\ NoPAC
  /\ NoPrince
  /\ NoRun
  /\ \E k \in Keys : ikey_hi = k[1] /\ ikey_lo = k[2]
  /\ \E d \in Data : data_hi = d[1] /\ data_lo = d[2]
  /\ usage = {} /\ modifier1 = {} /\ modifier2 = {}
  /\ okey = << {}, {} >> /\ okey_first = << {}, {} >>

\* kdf(ikey_hi, ikey_lo, data_hi, data_lo, u), the first call
CallKdf ==
  /\ op = "none"
  /\ \E u \in Usages :
       /\ usage' = u
       /\ \E r \in {kdf(ikey_hi, ikey_lo, data_hi, data_lo, u)} :
            /\ modifier1' = r.modifier1
            /\ modifier2' = r.modifier2
            /\ okey' = r.ret
            /\ okey_first' = r.ret
  /\ op' = "kdf"
  /\ UNCHANGED << not_kdf_vars, ikey_hi, ikey_lo, data_hi, data_lo >>

\* a call in between, for the neighbouring usage (usage ^ 1)
CallKdfOther ==
  /\ op = "kdf"
  /\ usage' = Xor(usage, NibBits(1))
  /\ \E r \in {kdf(ikey_hi, ikey_lo, data_hi, data_lo, Xor(usage, NibBits(1)))} :
       /\ modifier1' = r.modifier1
       /\ modifier2' = r.modifier2
       /\ okey' = r.ret
  /\ op' = "kdf_other"
  /\ UNCHANGED << not_kdf_vars, ikey_hi, ikey_lo, data_hi, data_lo, okey_first >>

\* the first call again, with the same five inputs
CallKdfAgain ==
  /\ op = "kdf_other"
  /\ usage' = Xor(usage, NibBits(1))
  /\ \E r \in {kdf(ikey_hi, ikey_lo, data_hi, data_lo, Xor(usage, NibBits(1)))} :
       /\ modifier1' = r.modifier1
       /\ modifier2' = r.modifier2
       /\ okey' = r.ret
  /\ op' = "kdf_again"
  /\ UNCHANGED << not_kdf_vars, ikey_hi, ikey_lo, data_hi, data_lo, okey_first >>

KdfNext == CallKdf \/ CallKdfOther \/ CallKdfAgain

SpecKdf == KdfInit /\ [][KdfNext]_vars

\* ---------------------------------------------------------------- calls of prince.py

\* the words with one bit set, the words with one nibble value in every
\* position, and the sample pointers
Words ==
  {{i} : i \in 0..63}
    \cup {UNION {ShiftL(NibBits(n), i) : i \in NybbleShifts} : n \in 0..15}
    \cup Pointers

\* the functions of one argument; "middle" is the middle of prince_core
BlockFns == {"s", "s_inv", "sr", "sr_inv", "m", "m_inv", "m_prime", "middle"}

\* f(x)
Apply(f, x) ==
  CASE f = "s" -> s(x)
    [] f = "s_inv" -> s_inv(x)
    [] f = "sr" -> sr(x)
    [] f = "sr_inv" -> sr_inv(x)
    [] f = "m" -> m(x)
    [] f = "m_inv" -> m_inv(x)
    [] f = "m_prime" -> m_prime(x)
    [] f = "middle" -> middle(x)

\* the function prince_core undoes f with
Inverse(f) ==
  CASE f = "s" -> "s_inv"
    [] f = "s_inv" -> "s"
    [] f = "sr" -> "sr_inv"
    [] f = "sr_inv" -> "sr"
    [] f = "m" -> "m_inv"
    [] f = "m_inv" -> "m"
    [] f = "m_prime" -> "m_prime"
    [] f = "middle" -> "middle"

\* no call made yet
PrinceInit ==
  /\ op = "none"
  /\ NoPAC
  /\ NoKdf
  /\ NoRun
  /\ val \in Words
  /\ k0 = {} /\ k1 = {} /\ rc = "RC" /\ fn = "none"
  /\ out = {} /\ out2 = {}

\* f(val) for a function f of one argument
CallBlock ==
  /\ op = "none"
  /\ \E f \in BlockFns :
       /\ fn' = f
       /\ out' = Apply(f, val)
  /\ op' = "block"
  /\ UNCHANGED << not_prince_vars, val, k0, k1, rc, out2 >>

\* the inverse of fn called on what fn returned
CallBlockInverse ==
  /\ op = "block"
  /\ out2' = Apply(Inverse(fn), out)
  /\ op' = "block_inverse"
  /\ UNCHANGED << not_prince_vars, val, k0, k1, rc, fn, out >>

\* prince(val, k0, k1, rc), the halves of a key passed in either order
CallPrince ==
  /\ op = "none"
  /\ \E k \in Keys, h \in {1, 2}, table \in {"RC", "RC_Apple"} :
       /\ k0' = k[h]
       /\ k1' = k[3 - h]
       /\ rc' = table
       /\ out' = prince(val, k[h], k[3 - h], Table(table))
  /\ fn' = "prince"
  /\ op' = "prince"
  /\ UNCHANGED << not_prince_vars, val, out2 >>

\* prince(out, complement(k0), k1, rc)
CallPrinceComplement ==
  /\ op = "prince"
  /\ out2' = prince(out, complement(k0), k1, Table(rc))
  /\ op' = "prince_complement"
  /\ UNCHANGED << not_prince_vars, val, k0, k1, rc, fn, out >>

\* prince(out, complement(k0), k1 ^ rc[11], rc)
CallPrinceReflect ==
  /\ op = "prince"
  /\ out2' = prince(out, complement(k0), Xor(k1, Table(rc)[12]), Table(rc))
  /\ op' = "prince_reflect"
  /\ UNCHANGED << not_prince_vars, val, k0, k1, rc, fn, out >>

\* modified_prince(val, k0, k1, out): the word prince returned is the modifier
CallModifiedPrince ==
  /\ op = "prince"
  /\ out2' = modified_prince(val, k0, k1, out)
  /\ op' = "modified_prince"
  /\ UNCHANGED << not_prince_vars, val, k0, k1, rc, fn, out >>

\* 0xc0ac29b7c97c50dd, the last constant of both tables
Alpha == Hex(<<12, 0,10,12, 2, 9,11, 7,12, 9, 7,12, 5, 0,13,13>>)

\* prince_core(val, k1, rc), the key either half of a sample key
CallCore ==
  /\ op = "none"
  /\ \E k \in Keys, h \in {1, 2}, table \in {"RC", "RC_Apple"} :
       /\ k1' = k[h]
       /\ rc' = table
       /\ out' = prince_core(val, k[h], Table(table))
  /\ fn' = "prince_core"
  /\ op' = "core"
  /\ UNCHANGED << not_prince_vars, val, k0, out2 >>

\* prince_core(out, k1 ^ 0xc0ac29b7c97c50dd, rc)
CallCoreReflect ==
  /\ op = "core"
  /\ out2' = prince_core(out, Xor(k1, Alpha), Table(rc))
  /\ op' = "core_reflect"
  /\ UNCHANGED << not_prince_vars, val, k0, k1, rc, fn, out >>

PrinceNext ==
  \/ CallBlock \/ CallBlockInverse \/ CallPrince \/ CallPrinceComplement \/ CallPrinceReflect
  \/ CallModifiedPrince \/ CallCore \/ CallCoreReflect

SpecPrince == PrinceInit /\ [][PrinceNext]_vars

\* ---------------------------------------------------------------- invocations, step by step

NumThreads == 2

\* the c-th of the calls that are made concurrently, counting round
Concurrent(c) == ((c - 1) % Cardinality(ConcurrentCalls)) + 1

\* NumThreads invocations have been called, none has taken a step: invocation
\* t runs the t-th call after some first
ThreadsInit ==
  /\ op = "none"
  /\ NoPAC /\ NoKdf /\ NoPrince
  /\ tables = ConstantTables
  /\ \E first \in ConcurrentCalls :
       frames = [t \in 1..NumThreads |-> NewFrame(Concurrent(first + t - 1))]

\* one call has been made
RunInit ==
  /\ op = "none"
  /\ NoPAC /\ NoKdf /\ NoPrince
  /\ tables = ConstantTables
  /\ \E c \in DOMAIN Invocations : frames = [t \in {1} |-> NewFrame(c)]

\* invocation t executes its next step
RunStep(t) ==
  /\ t \in DOMAIN frames
  /\ frames[t].pc # "done"
  /\ \E r \in {Step(frames, tables, t)} :
       /\ frames' = r.frames
       /\ tables' = r.tables
  /\ UNCHANGED not_run_vars

RunNext == \E t \in 1..NumThreads : RunStep(t)

\* concurrent invocations, their steps interleaved in any order
SpecThreads == ThreadsInit /\ [][RunNext]_vars

\* one invocation; the interpreter executes the next statement of a call
\* that has not returned
SpecRun == RunInit /\ [][RunNext]_vars /\ WF_vars(RunStep(1))

\* ---------------------------------------------------------------- prince_core, statement by statement

\* the value a for statement gives its variable next: the least value of the
\* range above i, or none (the empty sequence) when the range is exhausted
for_next(range, i) ==
  LET rest == {j \in range : j > i}
  IN  IF rest = {} THEN << >> ELSE << CHOOSE j \in rest : \A j2 \in rest : j <= j2 >>

\* prince_core(word, key, table) before its first statement: line is the line
\* of prince.py executed next, used the indices rc has been read at and
\* trace the statements executed, both in the order of execution
prince_core_frame(word, key, table) ==
  [line |-> 186, state |-> word, k1 |-> key, rc |-> table, i |-> 0,
   used |-> << >>, trace |-> << >>, ret |-> << >>]

\* the statement state ^= k1 at line ln, followed by line next
xor_k1(fr, next) ==
  [fr EXCEPT !.state = Xor(fr.state, fr.k1), !.line = next,
             !.trace = Append(fr.trace, "k1")]

\* the statement state ^= rc[j], followed by line next
xor_rc(fr, j, next) ==
  [fr EXCEPT !.state = Xor(fr.state, Table(fr.rc)[j + 1]), !.line = next,
             !.used = Append(fr.used, j), !.trace = Append(fr.trace, "rc")]

\* the statement state = f(state), followed by line next
assign_call(fr, f, next) ==
  [fr EXCEPT !.state = Apply(f, fr.state), !.line = next,
             !.trace = Append(fr.trace, f)]

\* the for statement over range: the body at line body, or the statement
\* after the loop at line after
for_statement(fr, range, body, after) ==
  IF for_next(range, fr.i) = << >> THEN [fr EXCEPT !.line = after]
  ELSE [fr EXCEPT !.i = for_next(range, fr.i)[1], !.line = body]

\* the statement of prince_core at fr.line
prince_core_statement(fr) ==
  CASE fr.line = 186 -> xor_k1(fr, 187)
    [] fr.line = 187 -> xor_rc(fr, 0, 189)
    [] fr.line = 189 -> for_statement(fr, forward_range, 190, 195)
    [] fr.line = 190 -> assign_call(fr, "s", 191)
    [] fr.line = 191 -> assign_call(fr, "m", 192)
    [] fr.line = 192 -> xor_rc(fr, fr.i, 193)
    [] fr.line = 193 -> xor_k1(fr, 189)
    [] fr.line = 195 -> assign_call(fr, "s", 196)
    [] fr.line = 196 -> assign_call(fr, "m_prime", 197)
    [] fr.line = 197 -> assign_call(fr, "s_inv", 199)
    [] fr.line = 199 -> for_statement(fr, backward_range, 200, 205)
    [] fr.line = 200 -> xor_k1(fr, 201)
    [] fr.line = 201 -> xor_rc(fr, fr.i, 202)
    [] fr.line = 202 -> assign_call(fr, "m_inv", 203)
    [] fr.line = 203 -> assign_call(fr, "s_inv", 199)
    [] fr.line = 205 -> xor_rc(fr, 11, 206)
    [] fr.line = 206 -> xor_k1(fr, 208)
    [] fr.line = 208 -> [fr EXCEPT !.ret = << fr.state >>, !.line = 0]

\* prince_core has been called on a word, with a key and a table
CoreInit ==
  /\ op = "none"
  /\ NoPAC /\ NoKdf /\ NoPrince
  /\ tables = ConstantTables
  /\ \E x \in Pointers, k \in Keys, table \in {"RC", "RC_Apple"} :
       frames = << prince_core_frame(x, k[2], table) >>

\* the call executes its next statement
CoreStep ==
  /\ frames[1].line # 0
  /\ \E r \in {prince_core_statement(frames[1])} : frames' = << r >>
  /\ UNCHANGED << tables, not_run_vars >>

SpecCore == CoreInit /\ [][CoreStep]_vars

\* ---------------------------------------------------------------- properties

\* the calls of Auth
AuthOps == {"Auth", "AuthSigned"}

\* the PAC field of the calls, where _PACMask returns one
Mask == _PACMask(bottom_pac_bit, tbi)

\* bits [bottom_pac_bit, top_bit] of q are all 0 or all 1
NonPoisoned(q) ==
  LET ext == bottom_pac_bit..(IF tbi THEN 55 ELSE 63)
  IN  ext \cap q = {} \/ ext \subseteq q

\* the masked bits of the argument of Auth differ from those of its pac
Mismatch == And(ptr, Mask) # And(pac, Mask)

\* original with the 2-bit code (0b01, or 0b10 for a B key) written into bits
\* [low + 1, low]
WithErrorCode(original, low) ==
  (original \ {low, low + 1}) \cup (IF b_key THEN {low + 1} ELSE {low})

\* the two bits Auth writes the error code into
ErrorCodeField == IF tbi THEN {53, 54} ELSE {61, 62}

\* C1: signing a non-poisoned pointer and authenticating the result with the
\* same key, modifier, field and flags (b_key false) gives Strip of the
\* pointer; where AddPAC raises ValueError instead of returning (a
\* bottom_pac_bit above 55, C4), Strip of the pointer raises it too
C1_SignAuthRoundTrip ==
  /\ (op = "AuthSigned" /\ ~b_key /\ NonPoisoned(p)
        => ret = Strip(p, bottom_pac_bit, tbi))
  /\ (op = "AddPAC" /\ ret = ValueError
        => Strip(p, bottom_pac_bit, tbi) = ValueError)

\* a non-poisoned pointer that signing changed has been authenticated
C1_Witness ==
  /\ op = "AuthSigned" /\ ~b_key /\ NonPoisoned(p)
  /\ ptr # p
  /\ ret = Strip(p, bottom_pac_bit, tbi)

\* C2 as stated: without EnhancedPAC2, signing then authenticating a poisoned
\* pointer leaves a nonzero value in the error-code field
C2_Original ==
  op = "AuthSigned" /\ input_is_poisoned /\ ~have_enhanced_pac2
    => ret \cap ErrorCodeField # {}

\* C2 amended: without EnhancedPAC2, signing then authenticating a poisoned
\* pointer leaves the error code of the key family in the error-code field
\* when have_enhanced_pac is false, and also when it is true unless the
\* masked bits of the code Auth recomputes are all 0 (they then equal the
\* forced code 0 and the authentication succeeds)
C2_PoisonedDetected ==
  op = "AuthSigned" /\ input_is_poisoned /\ ~have_enhanced_pac2
    /\ (~have_enhanced_pac \/ And(pac, Mask) # {})
    => /\ ret \cap ErrorCodeField # {}
       /\ ret = WithErrorCode(Strip(ptr, bottom_pac_bit, tbi),
                              IF tbi THEN 53 ELSE 61)

\* a poisoned pointer signed without EnhancedPAC has failed authentication
C2_Witness ==
  /\ op = "AuthSigned" /\ input_is_poisoned
  /\ ~have_enhanced_pac2 /\ ~have_enhanced_pac
  /\ ret \cap ErrorCodeField # {}

\* C3 as stated: without EnhancedPAC2 a failed Auth returns Strip(ptr) with
\* the error code in bits [53,52] (tbi) or [61,60] (not tbi)
C3_Original ==
  op \in AuthOps /\ ~have_enhanced_pac2 /\ ret # ValueError /\ Mismatch
    => ret = WithErrorCode(Strip(ptr, bottom_pac_bit, tbi), IF tbi THEN 52 ELSE 60)

\* C3 amended: without EnhancedPAC2 a failed Auth returns Strip(ptr) with the
\* error code (0b01 for an A key, 0b10 for a B key) in bits [54,53] (tbi) or
\* [62,61] (not tbi), all other bits those of Strip(ptr)
C3_AuthFailureEncoding ==
  op \in AuthOps /\ ~have_enhanced_pac2 /\ ret # ValueError /\ Mismatch
    => ret = WithErrorCode(Strip(ptr, bottom_pac_bit, tbi), IF tbi THEN 53 ELSE 61)

\* an authentication with a B key has failed
C3_Witness ==
  /\ op = "Auth" /\ ~have_enhanced_pac2 /\ b_key
  /\ ret # ValueError /\ Mismatch
  /\ ret # Strip(ptr, bottom_pac_bit, tbi)

\* C4: Strip, AddPAC and Auth return a pointer for every bottom_pac_bit in
\* 0..63 and never raise
C4_Totality ==
  op # "none" /\ bottom_pac_bit \in 0..63 => ret # ValueError

\* C5 as stated: for bottom_pac_bit in 0..55, without EnhancedPAC2, Auth
\* returns and its result is Strip(ptr) exactly when the masked bits match
C5_Original ==
  op \in AuthOps /\ ~have_enhanced_pac2 /\ bottom_pac_bit \in 0..55
    => /\ ret # ValueError
       /\ (ret = Strip(ptr, bottom_pac_bit, tbi)) <=> ~Mismatch

\* C5 amended: the same for every bottom_pac_bit in 0..55 except
\* bottom_pac_bit = 54 with tbi true (bit 53 of the error code is then an
\* address bit and a failed result can equal Strip(ptr))
C5_FailureDetectable ==
  op \in AuthOps /\ ~have_enhanced_pac2 /\ bottom_pac_bit \in 0..55
    /\ ~(tbi /\ bottom_pac_bit = 54)
    => /\ ret # ValueError
       /\ (ret = Strip(ptr, bottom_pac_bit, tbi)) <=> ~Mismatch

\* an authentication has failed and its result differs from Strip(ptr)
C5_Witness ==
  /\ op \in AuthOps /\ ~have_enhanced_pac2 /\ bottom_pac_bit \in 0..55
  /\ ~(tbi /\ bottom_pac_bit = 54)
  /\ Mismatch
  /\ ret # Strip(ptr, bottom_pac_bit, tbi)

C7_StripIdempotent ==
  op = "Strip" => Strip(ret, bottom_pac_bit, tbi) = ret

\* Strip has changed a pointer
C7_Witness ==
  /\ op = "Strip" /\ ret \notin {ValueError, p}
  /\ Strip(ret, bottom_pac_bit, tbi) = ret

\* C8: Strip(ptr) is ptr with every bit of the PAC mask replaced by bit 55 of
\* ptr and every other bit unchanged, a function of ptr, bottom_pac_bit and
\* tbi alone; where the mask raises ValueError (C4), so does Strip
C8_StripDefinition ==
  op = "Strip"
    => IF Mask = ValueError THEN ret = ValueError
       ELSE ret = {i \in 0..63 : IF i \in Mask THEN 55 \in ptr ELSE i \in ptr}

\* Strip has set the PAC field of a pointer with bit 55 set
C8_Witness ==
  /\ op = "Strip" /\ ret \notin {ValueError, p}
  /\ 55 \in p
  /\ Mask \subseteq ret

\* C9: for a poisoned pointer and EnhancedPAC the code is 0: AddPAC returns
\* the pointer with the mask bits cleared (without EnhancedPAC2) or unchanged
\* (with EnhancedPAC2), whatever the key and the modifier
C9_PoisonedEnhancedPAC ==
  op = "AddPAC" /\ input_is_poisoned /\ have_enhanced_pac
    => /\ pac = {}
       /\ ret = IF have_enhanced_pac2 THEN p ELSE p \ Mask

\* a poisoned pointer has lost its mask bits in AddPAC with EnhancedPAC
C9_Witness ==
  /\ op = "AddPAC" /\ input_is_poisoned /\ have_enhanced_pac
  /\ ~have_enhanced_pac2
  /\ ret = p \ Mask
  /\ ret # p

\* the bit AddPAC flips in the code of a poisoned pointer
FlippedBit == IF tbi THEN 54 ELSE 62

\* C10: for a poisoned pointer without EnhancedPAC and EnhancedPAC2 the code
\* AddPAC embeds is modified_prince(Strip(ptr), k_hi, k_lo, modifier) with
\* exactly bit top_bit - 1 flipped, and the result differs in exactly that
\* bit from the one the unflipped code gives; for a non-poisoned pointer, and
\* with EnhancedPAC2, no bit is flipped (the code is the computed one, or the
\* forced 0 of C9)
C10_PoisonedCodeFlip ==
  op = "AddPAC" /\ ret # ValueError
    => \A computed \in {modified_prince(Strip(p, bottom_pac_bit, tbi), k_hi, k_lo, modifier)} :
         /\ input_is_poisoned /\ ~have_enhanced_pac /\ ~have_enhanced_pac2
              => /\ pac = (computed \ {FlippedBit}) \cup ({FlippedBit} \ computed)
                 /\ Xor(ret, (p \ Mask) \cup (computed \cap Mask)) = {FlippedBit}
         /\ ~input_is_poisoned \/ have_enhanced_pac2
              => pac = IF input_is_poisoned /\ have_enhanced_pac THEN {} ELSE computed

\* a poisoned pointer has been signed with the flipped code
C10_Witness ==
  /\ op = "AddPAC" /\ ret # ValueError
  /\ input_is_poisoned /\ ~have_enhanced_pac /\ ~have_enhanced_pac2
  /\ FlippedBit \in Mask

\* C11: AddPAC returns ptr XOR (pac & mask) with EnhancedPAC2, and ptr with
\* the mask bits cleared OR (pac & mask) without it; in the latter case the
\* mask bits of the result are those of pac, whatever ptr held there
C11_MergeRule ==
  op = "AddPAC" /\ ret # ValueError
    => IF have_enhanced_pac2
       THEN ret = {i \in ptr \cup (pac \cap Mask) : ~(i \in ptr /\ i \in pac \cap Mask)}
       ELSE /\ ret = (ptr \ Mask) \cup (pac \cap Mask)
            /\ ret \cap Mask = pac \cap Mask

\* AddPAC without EnhancedPAC2 has overwritten mask bits that were set in the
\* pointer and are clear in the code
C11_Witness ==
  /\ op = "AddPAC" /\ ret # ValueError /\ ~have_enhanced_pac2
  /\ (ptr \cap Mask) \ pac # {}
  /\ ret \cap Mask = pac \cap Mask

\* the calls of kdf
KdfOps == {"kdf", "kdf_other", "kdf_again"}

\* C12 as stated: modifier2 is modifier1 with bit 4 set, modifier1 XOR
\* modifier2 = 16
C12_Original ==
  op \in KdfOps => modifier2 = modifier1 \cup {4} /\ Xor(modifier1, modifier2) = {4}

\* C12 amended: for every 4-bit usage, modifier2 is modifier1 with bit 3 set
\* (modifier1 | 0b01000), bit 3 being clear in modifier1: modifier1 XOR
\* modifier2 = 8
C12_SecondModifier ==
  op \in KdfOps => modifier2 = modifier1 \cup {3} /\ Xor(modifier1, modifier2) = {3}

\* kdf has returned for a usage with bit 3 set
C12_Witness ==
  /\ op = "kdf" /\ 3 \in usage
  /\ 3 \in modifier2 /\ 3 \notin modifier1 /\ 5 \in modifier1

\* C13: modifier1 is usage with bit 3 moved to bit 5 and bits 3, 4 clear;
\* okey_hi is modified_prince(modified_prince(data_hi, ikey, modifier1) XOR
\* data_lo, ikey, modifier1), okey_lo the same expression with modifier2
C13_KdfStructure ==
  op \in KdfOps
    => /\ modifier1 = (usage \cap {0, 1, 2}) \cup (IF 3 \in usage THEN {5} ELSE {})
       /\ \A md \in {<< modifier1, okey[1] >>, << modifier2, okey[2] >>} :
            \A tmp \in {modified_prince(data_hi, ikey_hi, ikey_lo, md[1])} :
              md[2] = modified_prince((tmp \ data_lo) \cup (data_lo \ tmp),
                                      ikey_hi, ikey_lo, md[1])

\* kdf has derived JAPIBKey from the docstring's data, and the halves differ
C13_Witness ==
  /\ op = "kdf" /\ usage = NibBits(9)
  /\ data_hi = DataSamples[1][1] /\ data_lo = DataSamples[1][2]
  /\ okey[1] # okey[2]

C15_Original ==
  op = "prince_complement" => out2 = val

\* C15 amended: for the table RC, prince applied to what prince returned, with
\* complement(k0) for k0 and k1 XOR RC[11] for k1, gives back the value XOR k0
\* XOR complement(complement(k0)) (the second call whitens its output with
\* complement(complement(k0)) where the inverse needs k0)
C15_PrinceReflection ==
  op = "prince_reflect" /\ rc = "RC"
    => \A fix \in {Xor(k0, complement(complement(k0)))} :
         (out2 \ fix) \cup (fix \ out2) = val

\* prince has been undone under a key whose k0 is not complement(complement(k0))
C15_Witness ==
  /\ op = "prince_reflect" /\ rc = "RC"
  /\ complement(complement(k0)) # k0
  /\ out # val /\ out2 # val
  /\ Xor(out2, Xor(k0, complement(complement(k0)))) = val

\* C16: the middle of prince_core, s then m_prime then s_inv, applied to what
\* it returned gives back the word
C16_MiddleInvolution ==
  op = "block_inverse" /\ fn = "middle" => out2 = val

\* the middle has been applied twice to a word it changes
C16_Witness ==
  /\ op = "block_inverse" /\ fn = "middle"
  /\ out # val /\ out2 = val

\* the three pairs of functions of C17, in both orders
PairFns == {"s", "s_inv", "sr", "sr_inv", "m", "m_inv"}

\* C17: s and s_inv, sr and sr_inv, m and m_inv undo each other in both
\* orders, and S and SR are permutations of 0 .. 15
C17_BlockRoundTrips ==
  /\ (op = "block_inverse" /\ fn \in PairFns => out2 = val)
  /\ {S[i] : i \in 1..16} = 0..15
  /\ {SR[i] : i \in 1..16} = 0..15

\* sr_inv has been undone by sr on a word it changes
C17_Witness ==
  /\ op = "block_inverse" /\ fn = "sr_inv"
  /\ out # val /\ out2 = val

\* C18: m_prime of a word with the single bit 63 - i set is row i of M_PRIME,
\* and m_prime applied to what it returned gives back the word
C18_DiffusionInvolution ==
  /\ (op \in {"block", "block_inverse"} /\ fn = "m_prime"
        => \A b \in 0..63 : val = {b} => out = M_PRIME[64 - b])
  /\ (op = "block_inverse" /\ fn = "m_prime" => out2 = val)

\* m_prime has been applied twice to a word it changes
C18_Witness ==
  /\ op = "block_inverse" /\ fn = "m_prime"
  /\ Cardinality(val) > 1
  /\ out # val /\ out2 = val

\* C19: in every interleaving of the steps of concurrently running
\* invocations of AddPAC, Auth, Strip, kdf, prince and modified_prince, an
\* invocation that has ended has returned (or raised, C4) what the call
\* returns when run alone; a step changes the frame of one invocation and of
\* no other; and the tables S, SR, M_PRIME, RC, RC_Apple keep their contents
C19_ConcurrencySafety ==
  /\ [](\A t \in DOMAIN frames :
          frames[t].pc = "done" => frames[t].ret = << AloneResults[frames[t].call] >>)
  /\ [](tables = ConstantTables)
  /\ [][\A t \in DOMAIN frames :
          frames'[t] # frames[t] => \A u \in DOMAIN frames \ {t} : frames'[u] = frames[u]]_vars

\* an invocation of kdf has returned while another invocation is between
\* the rounds of prince_core
C19_Witness ==
  /\ NumThreads \in DOMAIN frames
  /\ \E t \in DOMAIN frames, u \in DOMAIN frames :
       /\ t # u
       /\ Invocations[frames[t].call].fnname = "kdf"
       /\ frames[t].pc = "done"
       /\ frames[t].ret = << AloneResults[frames[t].call] >>
       /\ frames[u].pc = "backward"

\* the loop iterations a call of a function with loops executes: 16 nibbles,
\* 64 bits, 5 forward and 5 backward rounds
ExpectedLoops(fnname) ==
  CASE fnname \in {"s", "s_inv", "sr", "sr_inv"} -> 16
    [] fnname = "m_prime" -> 64
    [] fnname \in {"prince_core", "prince", "modified_prince"} -> 10

\* the functions of ExpectedLoops
LoopFns == {"s", "s_inv", "sr", "sr_inv", "m_prime", "prince_core", "prince", "modified_prince"}

\* C20: every call of s, s_inv, sr, sr_inv, m_prime, prince_core, prince,
\* modified_prince, kdf, Strip, AddPAC and Auth eventually ends (it returns,
\* or raises where C4 applies), and whatever the input, s, s_inv, sr and
\* sr_inv have then executed 16 iterations, m_prime 64, and prince_core,
\* prince and modified_prince 5 forward rounds before the middle and 5
\* backward rounds after it
C20_Termination ==
  LET fnname == Invocations[frames[1].call].fnname
  IN  /\ <>(/\ frames[1].pc = "done"
            /\ fnname \in LoopFns => frames[1].loops = ExpectedLoops(fnname))
      /\ fnname \in {"prince_core", "prince", "modified_prince"}
           => <>(frames[1].pc = "middle" /\ frames[1].loops = 5)

\* m_prime has returned after 64 iterations
C20_Witness ==
  /\ frames # << >>
  /\ Invocations[frames[1].call].fnname = "m_prime"
  /\ frames[1].pc = "done"
  /\ frames[1].loops = 64
  /\ frames[1].ret = << AloneResults[frames[1].call] >>

\* C21: for a bottom_pac_bit in 0..55, the mask of the calls has exactly the
\* bits bottom_pac_bit..54, and the bits 56..63 when tbi is false: bit 55 and
\* the bits below bottom_pac_bit are not in it, and for bottom_pac_bit = 55
\* with tbi it is 0
C21_PACMaskShape ==
  bottom_pac_bit \in 0..55 /\ op \in {"Strip", "AddPAC", "Auth", "AuthSigned"} =>
    /\ \A b \in 0..63 :
         b \in Mask <=> \/ (bottom_pac_bit <= b /\ b <= 54)
                        \/ (~tbi /\ 56 <= b /\ b <= 63)
    /\ Mask \subseteq 0..63
    /\ 55 \notin Mask
    /\ (bottom_pac_bit = 55 /\ tbi => Mask = {})

\* Strip has been called with bottom_pac_bit = 55 and tbi, where the mask is 0
C21_Witness ==
  /\ op = "Strip"
  /\ bottom_pac_bit = 55 /\ tbi
  /\ Mask = {}
  /\ ret = p

\* the statements the claim lists, in its order
C22_Statements ==
  << "k1", "rc" >>
    \o << "s", "m", "rc", "k1" >> \o << "s", "m", "rc", "k1" >> \o << "s", "m", "rc", "k1" >>
    \o << "s", "m", "rc", "k1" >> \o << "s", "m", "rc", "k1" >>
    \o << "s", "m_prime", "s_inv" >>
    \o << "k1", "rc", "m_inv", "s_inv" >> \o << "k1", "rc", "m_inv", "s_inv" >>
    \o << "k1", "rc", "m_inv", "s_inv" >> \o << "k1", "rc", "m_inv", "s_inv" >>
    \o << "k1", "rc", "m_inv", "s_inv" >>
    \o << "rc", "k1" >>

\* C22: at every point of an execution of prince_core the statements executed
\* so far are the first ones of: XOR key, XOR rc[0]; five times s, m, XOR
\* rc[i], XOR key; s, m_prime, s_inv; five times XOR key, XOR rc[i], m_inv,
\* s_inv; XOR rc[11], XOR key; the constants read so far are rc[0], rc[1], ...
\* in index order; and when the call returns it has read each of the 12
\* constants once and XORed the key 12 times
C22_CoreStepOrder ==
  LET fr == frames[1]
  IN  /\ Len(fr.trace) <= Len(C22_Statements)
      /\ fr.trace = SubSeq(C22_Statements, 1, Len(fr.trace))
      /\ fr.used = [n \in 1..Len(fr.used) |-> n - 1]
      /\ fr.line = 0 =>
           /\ fr.trace = C22_Statements
           /\ fr.used = [n \in 1..12 |-> n - 1]
           /\ Cardinality({n \in DOMAIN fr.trace : fr.trace[n] = "k1"}) = 12

\* prince_core has returned, with the Apple table, what the function gives,
\* after reading 12 constants
C22_Witness ==
  /\ frames # << >>
  /\ "line" \in DOMAIN frames[1]
  /\ frames[1].line = 0
  /\ frames[1].rc = "RC_Apple"
  /\ Len(frames[1].used) = 12
  /\ frames[1].ret # << >>

\* k0' = ror1(k0) XOR (k0 >> 63), bit by bit: bit 63 is bit 0 of k, bit b is
\* bit b + 1 of k, and bit 0 is bit 1 of k XOR bit 63 of k
K0Prime(k) ==
  {b \in 0..63 : IF b = 63 THEN 0 \in k
                 ELSE IF b = 0 THEN (1 \in k) # (63 \in k)
                 ELSE (b + 1) \in k}

\* C23: prince(val, k0, k1, rc) is prince_core(val XOR k0, k1, rc) XOR k0'
\* with k0' = ror1(k0) XOR (k0 >> 63): k0 whitens the input, k0' the output,
\* and k1 alone is the key of the core; modified_prince(val, k0, k1, modifier)
\* is prince(val, k0, k1 XOR modifier, RC_Apple)
C23_PrinceKeying ==
  /\ (op = "prince"
        => out = Xor(prince_core(Xor(val, k0), k1, Table(rc)), K0Prime(k0)))
  /\ (op = "modified_prince"
        => /\ out2 = prince(val, k0, Xor(k1, out), RC_Apple)
           /\ out2 = Xor(prince_core(Xor(val, k0), Xor(k1, out), RC_Apple),
                         K0Prime(k0)))

\* modified_prince has returned for a key with bits 0, 1 and 63 of k0 set
\* and a modifier that is not 0
C23_Witness ==
  /\ op = "modified_prince"
  /\ 0 \in k0 /\ 1 \in k0 /\ 63 \in k0
  /\ out # {}
  /\ out2 = prince(val, k0, Xor(k1, out), RC_Apple)
  /\ out2 # prince(val, k0, k1, RC_Apple)

\* w is in [0, 2^64): no bit at position 64 or above (a word is held as the
\* set of the positions of its 1 bits, which a negative int has no finite
\* set of)
Word64(w) == w \subseteq 0..63

\* C24: for inputs in [0, 2^64), a usage in 0..15 and a bottom_pac_bit in
\* 0..55, the cipher state and the accumulator of every loop after every
\* step, and the values s, s_inv, sr, sr_inv, m_prime, prince_core, prince,
\* modified_prince, kdf, Strip, AddPAC and Auth return, are in [0, 2^64)
C24_Closure64 ==
  \A t \in DOMAIN frames :
    LET fr == frames[t]
        a == Invocations[fr.call]
    IN  ("bottom_pac_bit" \in DOMAIN a => a.bottom_pac_bit \in 0..55) =>
          /\ Word64(fr.state) /\ Word64(fr.acc)
          /\ fr.pc = "done" =>
               IF a.fnname = "kdf"
               THEN Word64(fr.ret[1][1]) /\ Word64(fr.ret[1][2])
               ELSE Word64(fr.ret[1])

\* Auth of the all-ones pointer has failed and returned a word with bit 63
\* set and the error code of a B key in bits 62 and 61
C24_Witness ==
  /\ frames # << >>
  /\ frames[1].pc = "done"
  /\ Invocations[frames[1].call].fnname = "Auth"
  /\ Invocations[frames[1].call].ptr = 0..63
  /\ 63 \in frames[1].ret[1] /\ 62 \in frames[1].ret[1] /\ 61 \notin frames[1].ret[1]
  /\ Word64(frames[1].ret[1])

\* C25 as stated: without EnhancedPAC2, authenticating a signed non-poisoned
\* pointer after a change inside its PAC field fails, returns Strip(p) with
\* the error code written, and never returns the value a success returns
C25_Original ==
  op = "AuthTampered" /\ NonPoisoned(p)
    => /\ Mismatch
       /\ ret = WithErrorCode(Strip(p, bottom_pac_bit, tbi), IF tbi THEN 53 ELSE 61)
       /\ ret # Strip(p, bottom_pac_bit, tbi)

\* C25 amended: without EnhancedPAC2, authenticating a signed non-poisoned
\* pointer after a change inside its PAC field fails and returns Strip(p)
\* with the error code written; that value differs from Strip(p), the value a
\* success returns, except for bottom_pac_bit = 54 with tbi true (bit 53 of
\* the error code is then an address bit, C5)
C25_TamperDetected ==
  op = "AuthTampered" /\ NonPoisoned(p)
    => /\ Mismatch
       /\ ret = WithErrorCode(Strip(p, bottom_pac_bit, tbi), IF tbi THEN 53 ELSE 61)
       /\ (~(tbi /\ bottom_pac_bit = 54) => ret # Strip(p, bottom_pac_bit, tbi))

\* one changed bit of the PAC field of a signed non-poisoned pointer has
\* made Auth fail
C25_Witness ==
  /\ op = "AuthTampered" /\ NonPoisoned(p)
  /\ Cardinality(Mask) > 1
  /\ \E b \in Mask : And(ptr, Mask) = Xor(And(pac, Mask), {b})
  /\ ret # Strip(p, bottom_pac_bit, tbi)

\* C26 as stated: for bottom_pac_bit in 0..55, without EnhancedPAC and
\* EnhancedPAC2, signing a poisoned pointer and authenticating the result
\* fails for every key (the flipped bit top_bit - 1 is in the PAC mask), and
\* the result is Strip of the pointer with the error code written, never the
\* plain Strip of the pointer
C26_Original ==
  op = "AuthSigned" /\ input_is_poisoned /\ bottom_pac_bit \in 0..55
    /\ ~have_enhanced_pac /\ ~have_enhanced_pac2
    => /\ (AddPAC_top_bit(tbi) - 1) \in Mask
       /\ Mismatch
       /\ ret = WithErrorCode(Strip(p, bottom_pac_bit, tbi), IF tbi THEN 53 ELSE 61)
       /\ ret # Strip(p, bottom_pac_bit, tbi)

\* C26 amended: the same, the result differing from the plain Strip of the
\* pointer for every bottom_pac_bit in 0..55 except bottom_pac_bit = 54 with
\* tbi true (bit 53 of the error code is then an address bit, C5)
C26_PoisonedFails ==
  op = "AuthSigned" /\ input_is_poisoned /\ bottom_pac_bit \in 0..55
    /\ ~have_enhanced_pac /\ ~have_enhanced_pac2
    => /\ (AddPAC_top_bit(tbi) - 1) \in Mask
       /\ Mismatch
       /\ ret = WithErrorCode(Strip(p, bottom_pac_bit, tbi), IF tbi THEN 53 ELSE 61)
       /\ (~(tbi /\ bottom_pac_bit = 54) => ret # Strip(p, bottom_pac_bit, tbi))

\* a poisoned pointer signed with tbi and bottom_pac_bit 54, where the PAC
\* mask is bit 54 alone, has failed authentication with a B key
C26_Witness ==
  /\ op = "AuthSigned" /\ input_is_poisoned
  /\ ~have_enhanced_pac /\ ~have_enhanced_pac2
  /\ tbi /\ bottom_pac_bit = 54 /\ b_key
  /\ Mismatch
  /\ ret # Strip(p, bottom_pac_bit, tbi)

\* every call of Auth
AllAuthOps == {"Auth", "AuthSigned", "AuthTampered"}

\* C27 as stated: for bottom_pac_bit in 0..55 the result of Auth agrees with
\* its argument ptr on every bit outside the PAC mask, also when the
\* authentication fails
C27_Original ==
  op \in AllAuthOps /\ bottom_pac_bit \in 0..55
    => /\ ret # ValueError
       /\ AndNot(ret, Mask) = AndNot(ptr, Mask)

\* C27 amended: the same, except that a failed authentication with tbi true
\* and bottom_pac_bit = 54 writes the error code into bits 54 and 53, and bit
\* 53 is outside the mask: the result then agrees with ptr outside the mask
\* and bit 53
C27_AuthFrame ==
  op \in AllAuthOps /\ bottom_pac_bit \in 0..55
    => /\ ret # ValueError
       /\ AndNot(ret, Mask \cup {53}) = AndNot(ptr, Mask \cup {53})
       /\ (~(tbi /\ bottom_pac_bit = 54 /\ ~have_enhanced_pac2 /\ Mismatch)
             => AndNot(ret, Mask) = AndNot(ptr, Mask))
       /\ (55 \in ret <=> 55 \in ptr)

\* an authentication has failed and written the error code, and the result
\* differs from ptr inside the mask only
C27_Witness ==
  /\ op \in AllAuthOps /\ bottom_pac_bit \in 0..55
  /\ ~have_enhanced_pac2 /\ Mismatch
  /\ bottom_pac_bit > 0
  /\ ret # ptr
  /\ ret \cap ErrorCodeField # {}
  /\ AndNot(ret, Mask) = AndNot(ptr, Mask)

\* C28: for bottom_pac_bit in 0..55 and every flag combination, AddPAC returns
\* a pointer that agrees with its argument on every bit outside the PAC mask
\* (bit 55, the bits below bottom_pac_bit, the top byte when tbi is true), so
\* Strip of the result is Strip of the argument
C28_AddPACFrame ==
  op = "AddPAC" /\ bottom_pac_bit \in 0..55
    => /\ ret # ValueError
       /\ AndNot(ret, Mask) = AndNot(p, Mask)
       /\ (55 \in ret <=> 55 \in p)
       /\ \A b \in 0..63 : b < bottom_pac_bit \/ (tbi /\ b >= 56) => (b \in ret <=> b \in p)
       /\ Strip(ret, bottom_pac_bit, tbi) = Strip(p, bottom_pac_bit, tbi)

\* AddPAC has signed, with tbi and EnhancedPAC2, a pointer that has bits set
\* in its top byte, and changed it
C28_Witness ==
  /\ op = "AddPAC" /\ bottom_pac_bit \in 1..54
  /\ tbi /\ have_enhanced_pac2
  /\ p \cap 56..63 # {}
  /\ ret # p
  /\ Strip(ret, bottom_pac_bit, tbi) = Strip(p, bottom_pac_bit, tbi)

\* C29: a call of AddPAC or Auth with d XORed into both k_lo and modifier
\* returns what the call with k_lo and modifier returned, and the value of
\* modified_prince in it (the local pac) is the same
C29_KeyModifierInterchange ==
  [][op' \in {"AddPACShifted", "AuthShifted"}
       => /\ k_lo' # k_lo /\ modifier' # modifier
          /\ Xor(k_lo', modifier') = Xor(k_lo, modifier)
          /\ ret' = ret
          /\ pac' = pac]_vars

\* Auth has been called with all bits of k_lo and modifier inverted, and has
\* computed a code that is not 0
C29_Witness ==
  /\ op = "AuthShifted"
  /\ 63 \in modifier /\ 62 \in modifier
  /\ ret # ValueError
  /\ pac = modified_prince(Strip(p, bottom_pac_bit, tbi), k_hi, k_lo, modifier)
  /\ pac # {}

\* C30: RC[i] XOR RC[11 - i] is 0xc0ac29b7c97c50dd for every i in 0..11, and
\* with the table RC, prince_core under k1 XOR 0xc0ac29b7c97c50dd applied to
\* what prince_core under k1 returned gives back the word
C30_AlphaReflection ==
  /\ \A i \in 0..11 : Xor(RC[i + 1], RC[12 - i]) = Alpha
  /\ (op = "core_reflect" /\ rc = "RC" => out2 = val)

\* prince_core with RC has changed a word under a key that is not 0, and the
\* second call has returned the word
C30_Witness ==
  /\ op = "core_reflect" /\ rc = "RC"
  /\ k1 # {}
  /\ out # val
  /\ out2 = val

====
